---- MODULE Spec2Model ----
(***************************************************************************)
(* Model of pi-automem's session-to-memory extraction pipeline.            *)
(*                                                                         *)
(*   batch path : scripts/compound-review.js  (main, processSession, ...)  *)
(*   live path  : the extension's session_shutdown handler                 *)
(*                (extractConversationText, callGeminiForExtraction,       *)
(*                 storeExtractedMemories)                                 *)
(*                                                                         *)
(* Texts, paths, the ledger file and model responses are sequences of      *)
(* one-character strings, so that split/join/slice/regex steps are         *)
(* computed and not assumed.                                               *)
(***************************************************************************)
EXTENDS Integers, Sequences, FiniteSets, TLC

(***************************************************************************)
(* Bounds of the model                                                     *)
(***************************************************************************)
\* batch runs started in one behaviour
MaxRuns == 2
\* tokens in the array part of a model response
MaxBody == 3
\* longest transcript given to the parsers on their own
MaxLines == 3
\* length of the longest entry text
LongText == 5000

(***************************************************************************)
(* Program constants                                                       *)
(***************************************************************************)
\* compound-review.js:134 and extension:142 : per-entry cap
EntryCap == 2000
\* compound-review.js:255 : the batch gate's literal
BatchMinTurns == 3
\* extension:36 : AUTOMEM_MIN_TURNS default ("3")
DefaultMinTurns == 3

(***************************************************************************)
(* Generic sequence helpers                                                *)
(***************************************************************************)
Min(a, b) == IF a < b THEN a ELSE b

Range(s) == {s[i] : i \in 1..Len(s)}

\* String.prototype.slice(0, n) / Array.prototype.slice(0, n), n >= 0
Slice0(s, n) == SubSeq(s, 1, Min(Len(s), n))

RECURSIVE Join(_, _)
\* Array.prototype.join(sep) on a sequence of texts
Join(parts, sep) ==
  IF parts = <<>> THEN <<>>
  ELSE IF Len(parts) = 1 THEN parts[1]
  ELSE parts[1] \o sep \o Join(Tail(parts), sep)

RECURSIVE SplitOn(_, _, _)
\* String.prototype.split(c): cur is the piece being accumulated
SplitOn(s, c, cur) ==
  IF s = <<>> THEN <<cur>>
  ELSE IF Head(s) = c THEN <<cur>> \o SplitOn(Tail(s), c, <<>>)
  ELSE SplitOn(Tail(s), c, Append(cur, Head(s)))

NL == "\n"
Whitespace == {" ", NL}

\* text.trim() is a non-empty string
TrimNonEmpty(text) == \E i \in 1..Len(text) : text[i] \notin Whitespace

(***************************************************************************)
(* Ledger file (compound-review.js 58-68)                                  *)
(***************************************************************************)
\* the discoverable transcript paths (under ~/.pi/agent/sessions)
PathA == <<"a">>
PathB == <<"b">>
Paths == {PathA, PathB}
\* a path that --session can name and that is no readable transcript
PathMissing == <<"a", "b">>
NoSession == <<>>
SessionArgs == Paths \cup {PathMissing}
\* another spelling of the path of the file at PathA (a relative path, a
\* path through a symbolic link) that --session can name
PathAlias == <<".", "a">>

NoLedgerFile == [exists |-> FALSE, content |-> <<>>]

\* getProcessedSessions(): split("\n").filter(Boolean) into a Set
getProcessedSessions(file) ==
  IF ~file.exists THEN {}
  ELSE {l \in Range(SplitOn(file.content, NL, <<>>)) : l # <<>>}

\* variant: the file is written anew with the one line
markSessionProcessedRewrite(file, sessionPath, dry) ==
  IF ~dry THEN [exists |-> TRUE, content |-> sessionPath \o <<NL>>]
  ELSE file

\* variant: the append without the line terminator
markSessionProcessedNoNewline(file, sessionPath, dry) ==
  IF ~dry THEN [exists |-> TRUE, content |-> file.content \o sessionPath]
  ELSE file

\* variant: the append without the dryRun test
markSessionProcessedAlways(file, sessionPath, dry) ==
  [exists |-> TRUE, content |-> file.content \o sessionPath \o <<NL>>]

\* markSessionProcessed(sessionPath): appendFileSync unless dryRun
markSessionProcessed(file, sessionPath, dry) ==
  IF ~dry THEN [exists |-> TRUE, content |-> file.content \o sessionPath \o <<NL>>]
  ELSE file

(***************************************************************************)
(* Transcript records and the batch parser (compound-review.js 107-153)    *)
(***************************************************************************)
\* One transcript line / session entry.  json: JSON.parse(line) succeeds;
\* hasMessage: entry.message (batch) / entry.data (live) is truthy;
\* role "" stands for a missing role; ckind is the shape of msg.content.
Line(json, type, hasMessage, role, ckind, text, blocks) ==
  [json |-> json, type |-> type, hasMessage |-> hasMessage, role |-> role,
   ckind |-> ckind, text |-> text, blocks |-> blocks]

Block(type, text) == [type |-> type, text |-> text]

\* msg.content as text: a string as is, an array as its non-empty text
\* blocks joined by "\n", anything else as ""
ContentText(line) ==
  IF line.ckind = "string" THEN line.text
  ELSE IF line.ckind = "blocks" THEN
    LET kept == SelectSeq(line.blocks, LAMBDA c : c.type = "text" /\ c.text # <<>>)
    IN Join([i \in 1..Len(kept) |-> kept[i].text], <<NL>>)
  ELSE <<>>

\* the line passes lines 114-130 and pushes an entry
BatchContributes(line) ==
  /\ line.json
  /\ line.type = "message"
  /\ line.hasMessage
  /\ TrimNonEmpty(ContentText(line))
  /\ line.role \in {"user", "assistant"}

\* variant: the cut of the live path applied to the batch path
BatchEntryTextEllipsis(text) ==
  IF Len(text) > EntryCap THEN Slice0(text, EntryCap) \o <<".", ".", ".">> ELSE text

\* text.slice(0, 2000)
BatchEntryText(text) == Slice0(text, EntryCap)

RECURSIVE ParseFrom(_, _, _)
\* variant: one try around the whole loop, so that the first line that
\* does not parse ends the parse
ParseFromStopsAtMalformed(lines, i, acc) ==
  IF i > Len(lines) \/ ~lines[i].json THEN acc
  ELSE IF ~BatchContributes(lines[i]) THEN ParseFrom(lines, i + 1, acc)
  ELSE ParseFrom(lines, i + 1,
         [entries |-> Append(acc.entries,
                             [role |-> lines[i].role,
                              text |-> BatchEntryText(ContentText(lines[i]))]),
          turnCount |-> IF lines[i].role = "user" THEN acc.turnCount + 1
                        ELSE acc.turnCount])

\* variant: turnCount counts every entry pushed
ParseFromCountsEntries(lines, i, acc) ==
  IF i > Len(lines) THEN acc
  ELSE IF ~BatchContributes(lines[i]) THEN ParseFrom(lines, i + 1, acc)
  ELSE ParseFrom(lines, i + 1,
         [entries |-> Append(acc.entries,
                             [role |-> lines[i].role,
                              text |-> BatchEntryText(ContentText(lines[i]))]),
          turnCount |-> acc.turnCount + 1])

\* the for-loop of parseSession over lines i..Len(lines)
ParseFrom(lines, i, acc) ==
  IF i > Len(lines) THEN acc
  ELSE IF ~BatchContributes(lines[i]) THEN ParseFrom(lines, i + 1, acc)
  ELSE ParseFrom(lines, i + 1,
         [entries |-> Append(acc.entries,
                             [role |-> lines[i].role,
                              text |-> BatchEntryText(ContentText(lines[i]))]),
          turnCount |-> IF lines[i].role = "user" THEN acc.turnCount + 1
                        ELSE acc.turnCount])

parseSession(lines) == ParseFrom(lines, 1, [entries |-> <<>>, turnCount |-> 0])

\* role.toUpperCase()
Upper(role) ==
  IF role = "user" THEN <<"U", "S", "E", "R">>
  ELSE <<"A", "S", "S", "I", "S", "T", "A", "N", "T">>

\* formatConversation(entries)
formatConversation(entries) ==
  Join([i \in 1..Len(entries) |->
          Upper(entries[i].role) \o <<":", " ">> \o entries[i].text],
       <<NL, NL>>)

(***************************************************************************)
(* Live conversation rendering (extension, extractConversationText)        *)
(***************************************************************************)
\* the entry passes lines 115-135
LiveContributes(e) ==
  /\ e.type = "message"
  /\ e.hasMessage
  /\ e.role # ""
  /\ ~(e.ckind = "none")
  /\ ~(e.ckind = "string" /\ e.text = <<>>)
  /\ TrimNonEmpty(ContentText(e))

\* lines 137-143: user text as is; assistant text cut at 2000 plus "..."
LiveEntryText(role, text) ==
  IF role = "user" THEN text
  ELSE IF Len(text) > EntryCap THEN Slice0(text, EntryCap) \o <<".", ".", ".">>
  ELSE text

RECURSIVE LiveFrom(_, _, _)
LiveFrom(entries, i, acc) ==
  IF i > Len(entries) THEN acc
  ELSE IF ~LiveContributes(entries[i]) THEN LiveFrom(entries, i + 1, acc)
  ELSE IF entries[i].role = "user" THEN
    LiveFrom(entries, i + 1,
      [lines |-> Append(acc.lines,
                   Upper("user") \o <<":", " ">>
                     \o LiveEntryText("user", ContentText(entries[i]))),
       turnCount |-> acc.turnCount + 1])
  ELSE IF entries[i].role = "assistant" THEN
    LiveFrom(entries, i + 1,
      [lines |-> Append(acc.lines,
                   Upper("assistant") \o <<":", " ">>
                     \o LiveEntryText("assistant", ContentText(entries[i]))),
       turnCount |-> acc.turnCount])
  ELSE LiveFrom(entries, i + 1, acc)

extractConversationText(entries) ==
  LET r == LiveFrom(entries, 1, [lines |-> <<>>, turnCount |-> 0])
  IN [text |-> Join(r.lines, <<NL, NL>>), turnCount |-> r.turnCount]

(***************************************************************************)
(* Model responses and JSON (compound-review.js 193-206, extension 206-216)*)
(*                                                                         *)
(* A response is a sequence of tokens:                                     *)
(*   "[" "]" ","  JSON punctuation                                         *)
(*   "m"  an object with content, numeric importance and a tags array      *)
(*   "c"  an object without content                                        *)
(*   "i"  an object whose importance is not a number                       *)
(*   "t"  an object with content and importance but no tags field          *)
(*   "0"  the JSON value null                                              *)
(*   "x"  a word of prose (no JSON), "F" a markdown fence of three         *)
(*   backquotes, "j" the word json, newline and space as whitespace        *)
(***************************************************************************)
ElemKinds == {"m", "c", "i", "t", "0"}
Fence == "F"

RECURSIVE TrimLeft(_)
TrimLeft(s) ==
  IF s # <<>> /\ Head(s) \in Whitespace THEN TrimLeft(Tail(s)) ELSE s

RECURSIVE TrimRight(_)
TrimRight(s) ==
  IF s # <<>> /\ s[Len(s)] \in Whitespace THEN TrimRight(SubSeq(s, 1, Len(s) - 1))
  ELSE s

\* String.prototype.trim()
Trim(s) == TrimRight(TrimLeft(s))

\* replace(/^FENCE(?:json)?\n?/, "") on a text that starts with the fence
StripLeadingFence(s) ==
  LET a == Tail(s)
      b == IF a # <<>> /\ Head(a) = "j" THEN Tail(a) ELSE a
  IN IF b # <<>> /\ Head(b) = NL THEN Tail(b) ELSE b

\* replace(/\n?FENCE$/, "")
StripTrailingFence(s) ==
  IF s # <<>> /\ s[Len(s)] = Fence THEN
    LET a == SubSeq(s, 1, Len(s) - 1)
    IN IF a # <<>> /\ a[Len(a)] = NL THEN SubSeq(a, 1, Len(a) - 1) ELSE a
  ELSE s

\* lines 194-197 (batch) / 210-213 (live): trim, then unwrap a fenced answer
Unfence(text) ==
  LET jsonText == Trim(text)
  IN IF jsonText # <<>> /\ Head(jsonText) = Fence
     THEN StripTrailingFence(StripLeadingFence(jsonText))
     ELSE jsonText

\* jsonText.match(/\[[\s\S]*\]/): greedy, first "[" to the last "]" after it
MatchArray(s) ==
  LET opens  == {i \in 1..Len(s) : s[i] = "["}
      first  == CHOOSE i \in opens : \A k \in opens : i <= k
      closes == {i \in 1..Len(s) : s[i] = "]" /\ i > first}
      last   == CHOOSE i \in closes : \A k \in closes : k <= i
  IN IF opens = {} THEN [found |-> FALSE, text |-> <<>>]
     ELSE IF closes = {} THEN [found |-> FALSE, text |-> <<>>]
     ELSE [found |-> TRUE, text |-> SubSeq(s, first, last)]

JsonFail == [ok |-> FALSE, next |-> 0, kind |-> "", elems |-> <<>>]

RECURSIVE SkipWs(_, _)
SkipWs(s, i) ==
  IF i <= Len(s) /\ s[i] \in Whitespace THEN SkipWs(s, i + 1) ELSE i

RECURSIVE JsonValue(_, _)
RECURSIVE JsonElems(_, _, _)
\* one JSON value starting at s[i0]; kind "a" is an array, the
\* kinds are in elems (an element that is itself an array has kind "a")
JsonValue(s, i0) ==
  LET i == SkipWs(s, i0) IN
  IF i > Len(s) THEN JsonFail
  ELSE IF s[i] \in ElemKinds
    THEN [ok |-> TRUE, next |-> i + 1, kind |-> s[i], elems |-> <<>>]
  ELSE IF s[i] = "[" THEN
    LET j == SkipWs(s, i + 1) IN
    IF j <= Len(s) /\ s[j] = "]"
      THEN [ok |-> TRUE, next |-> j + 1, kind |-> "a", elems |-> <<>>]
      ELSE JsonElems(s, i + 1, <<>>)
  ELSE JsonFail

JsonElems(s, i, acc) ==
  LET v == JsonValue(s, i) IN
  IF ~v.ok THEN JsonFail
  ELSE LET j == SkipWs(s, v.next) IN
    IF j > Len(s) THEN JsonFail
    ELSE IF s[j] = "," THEN JsonElems(s, j + 1, Append(acc, v.kind))
    ELSE IF s[j] = "]"
      THEN [ok |-> TRUE, next |-> j + 1, kind |-> "a", elems |-> Append(acc, v.kind)]
    ELSE JsonFail

\* JSON.parse(text): ok = FALSE is the SyntaxError it throws
JsonParse(s) ==
  LET v == JsonValue(s, 1) IN
  IF v.ok /\ SkipWs(s, v.next) > Len(s) THEN v ELSE JsonFail

ExtractResult(threw, memories) == [threw |-> threw, memories |-> memories]

\* compound-review.js 193-211 on the stdout of a pi call that returned:
\* no array match gives []; a SyntaxError of JSON.parse is rethrown by
\* the catch at 207-211 (e.killed is not set on it)
parseBatchResponse(stdout) ==
  LET m == MatchArray(Unfence(stdout))
      v == JsonParse(m.text)
  IN IF ~m.found THEN ExtractResult(FALSE, <<>>)
     ELSE IF ~v.ok THEN ExtractResult(TRUE, <<>>)
     ELSE ExtractResult(FALSE, IF v.kind = "a" THEN v.elems ELSE <<>>)

\* extension 206-219 on the text of a 2xx Gemini answer: JSON.parse of the
\* unfenced text; every throw is caught at 217 and gives []
parseLiveResponse(text) ==
  LET v == JsonParse(Unfence(text))
  IN IF ~v.ok THEN ExtractResult(FALSE, <<>>)
     ELSE ExtractResult(FALSE, IF v.kind = "a" THEN v.elems ELSE <<>>)

(***************************************************************************)
(* Candidate memories as the store stage sees them                         *)
(***************************************************************************)
\* memory.content is a non-empty value
HasContent(k) == k \in {"m", "t"}
\* typeof memory.importance = "number"
ImportanceIsNumber(k) == k \in {"m", "c", "t"}
\* memory.tags is an array
HasTags(k) == k \in {"m", "c", "i"}
\* reading a property of the element throws a TypeError
IsNull(k) == k = "0"

\* storeMemory(memory, sessionPath), lines 227-237: building the request body
\* throws only for null; a missing tags field is replaced by []
BatchRequestSent(k) == ~IsNull(k)

\* variant: the live path replaces missing tags by [] as the batch path does
LiveRequestSentWithoutTags(k) == ~IsNull(k)

\* storeExtractedMemories, lines 237-252: [...memory.tags, ...] throws when
\* tags is not iterable, before automemRequest is called
LiveRequestSent(k) == ~IsNull(k) /\ HasTags(k)

(***************************************************************************)
(* State                                                                   *)
(***************************************************************************)
VARIABLES
  ledger,       \* ~/.pi/agent/automem-processed-sessions.log
  run,          \* run[r]: the state of batch process r (main)
  started,      \* number of batch runs started so far
  overlapped,   \* some batch run started while another one was in progress
  carriedDone,  \* paths that a finished non-dry run took through the store stage
  errorLast,    \* paths whose most recent processSession ended in the catch of
                \* main, or was cut off when the process was terminated
  storeStages,  \* storeStages[p]: number of store stages executed for path p
  live,         \* the extension in the host: its handlers and the shutdown hook
  fn            \* argument and result of a pure function under check

vars == <<ledger, run, started, overlapped, carriedDone, errorLast, storeStages,
          live, fn>>

Runs == {"r1", "r2"}

\* process.env.AUTOMEM_MIN_TURNS: unset (empty) or a digit string
MinTurnsSettings == {<<>>, <<"2">>}

DigitValue(d) ==
  CASE d = "0" -> 0 [] d = "1" -> 1 [] d = "2" -> 2 [] d = "3" -> 3
    [] d = "4" -> 4 [] d = "5" -> 5 [] d = "6" -> 6 [] d = "7" -> 7
    [] d = "8" -> 8 [] d = "9" -> 9

RECURSIVE ParseDigits(_, _)
ParseDigits(s, acc) ==
  IF s = <<>> THEN acc ELSE ParseDigits(Tail(s), 10 * acc + DigitValue(Head(s)))

\* extension line 36: parseInt(process.env.AUTOMEM_MIN_TURNS || "3", 10)
AUTOMEM_MIN_TURNS(e) ==
  IF e.AUTOMEM_MIN_TURNS = <<>> THEN DefaultMinTurns
  ELSE ParseDigits(e.AUTOMEM_MIN_TURNS, 0)

\* process.env.AUTOMEM_AUTO_EXTRACT: unset (empty) or a string
AutoExtractSettings == {"", "false", "0"}

\* extension line 35: process.env.AUTOMEM_AUTO_EXTRACT !== "false"
AUTOMEM_AUTO_EXTRACT(e) == e.AUTOMEM_AUTO_EXTRACT # "false"

\* the environment of one process: the variables either entry point reads
Envs ==
  [AUTOMEM_TOKEN : BOOLEAN, AUTOMEM_MIN_TURNS : MinTurnsSettings,
   AUTOMEM_AUTO_EXTRACT : AutoExtractSettings, GEMINI_API_KEY : BOOLEAN]

\* the batch script reads AUTOMEM_TOKEN alone (lines 34-35); the other
\* variables are set as the README's env file sets them
BatchEnvs == {e \in Envs : e.AUTOMEM_AUTO_EXTRACT = "" /\ e.GEMINI_API_KEY}

DefaultEnv ==
  [AUTOMEM_TOKEN |-> TRUE, AUTOMEM_MIN_TURNS |-> <<>>,
   AUTOMEM_AUTO_EXTRACT |-> "", GEMINI_API_KEY |-> TRUE]

(***************************************************************************)
(* Inputs of the batch path                                                *)
(***************************************************************************)
UserLine(text) == Line(TRUE, "message", TRUE, "user", "string", text, <<>>)
AssistantLine(text) == Line(TRUE, "message", TRUE, "assistant", "string", text, <<>>)
MalformedLine == Line(FALSE, "", FALSE, "", "none", <<>>, <<>>)

\* two user turns, one assistant turn and a corrupt line
TranscriptTwoTurns ==
  <<UserLine(<<"h">>), AssistantLine(<<"y">>), MalformedLine, UserLine(<<"i">>)>>
\* three user turns
TranscriptThreeTurns ==
  <<UserLine(<<"h">>), AssistantLine(<<"y">>), UserLine(<<"i">>), UserLine(<<"k">>)>>
\* four user turns, each answered
TranscriptFourTurns ==
  <<UserLine(<<"h">>), AssistantLine(<<"y">>), UserLine(<<"i">>), AssistantLine(<<"y">>),
    UserLine(<<"k">>), AssistantLine(<<"y">>), UserLine(<<"l">>), AssistantLine(<<"y">>)>>
SampleTranscripts == {TranscriptTwoTurns, TranscriptThreeTurns, TranscriptFourTurns}

\* --hours <n>: the default window and a short one
DefaultHours == 24
HoursArgs == {1, DefaultHours}

\* what findRecentSessions can return: the paths inside the window, each
\* once, in the order of their modification times.  PathA is the session
\* that was written to within the short window, if any was.
DiscoveryResults(hours) ==
  IF hours < DefaultHours THEN {<<>>, <<PathA>>}
  ELSE {<<>>, <<PathA>>, <<PathA, PathB>>, <<PathB, PathA>>}

\* stdout of a pi call that returned
BatchResponses ==
  { <<"[", "t", ",", "m", "]">>,
    <<"[", "]">>,
    <<"x">>,
    <<"[", "x", "]">>,
    <<"F", "j", NL, "[", "c", ",", "0", "]", NL, "F">> }

\* how the execSync of pi can end
ExecOutcomes == {"returned", "failed", "timeout"}

IdleRun ==
  [pc |-> "idle", env |-> DefaultEnv, dryRun |-> FALSE,
   specificSession |-> NoSession, hours |-> DefaultHours,
   sessions |-> <<>>, toProcess |-> <<>>, idx |-> 0, turnCount |-> 0,
   memories |-> <<>>, mi |-> 0, stored |-> 0, failed |-> 0, posts |-> <<>>,
   result |-> "none", totalMemories |-> 0, totalStored |-> 0,
   outcomes |-> <<>>, exitCode |-> -1, stderr |-> "none",
   execEnded |-> "none", lastError |-> "none",
   ledgerAtStart |-> NoLedgerFile, carriedAtStart |-> {}, errorAtStart |-> {},
   extracted |-> {}, posted |-> {}, carriedNow |-> {},
   summary |-> [printed |-> FALSE, sessionsProcessed |-> 0,
                memoriesExtracted |-> 0, storedPrinted |-> FALSE,
                memoriesStored |-> 0]]

Active(r) == run[r].pc \notin {"idle", "done"}
CurrentPath(r) == run[r].toProcess[run[r].idx]

\* variant: the loop is left at the first session that ends in error
NextSessionStopsOnError(rec, outcome) ==
  [rec EXCEPT !.outcomes = Append(@, outcome),
              !.idx = @ + 1,
              !.pc = IF outcome = "error" \/ rec.idx + 1 > Len(rec.toProcess)
                       THEN "summary" ELSE "session",
              !.memories = <<>>, !.mi = 0,
              !.stored = 0, !.failed = 0, !.posts = <<>>, !.result = "none"]

\* the for-loop of main (351-363) moves to the next session or to the summary
NextSession(rec, outcome) ==
  [rec EXCEPT !.outcomes = Append(@, outcome),
              !.idx = @ + 1,
              !.pc = IF rec.idx + 1 > Len(rec.toProcess) THEN "summary" ELSE "session",
              !.memories = <<>>, !.mi = 0,
              !.stored = 0, !.failed = 0, !.posts = <<>>, !.result = "none"]

Exit(rec, code) == [rec EXCEPT !.pc = "done", !.exitCode = code]

\* variant: the message is printed and the process exits with 0
AbortExitZero(rec, message) == [Exit(rec, 0) EXCEPT !.stderr = message]

\* console.error(message) and process.exit(1): lines 301-304, 307-312,
\* 322-325 and the catch of main() at 373-376
Abort(rec, message) == [Exit(rec, 1) EXCEPT !.stderr = message]

\* variant: no session is skipped as too short
BatchGateOpen(turnCount, e) == FALSE

\* variant: the gate with <= for <
BatchGateOffByOne(turnCount, e) == turnCount <= BatchMinTurns

\* processSession line 255: the session is skipped as too short; the
\* environment is not consulted
BatchGate(turnCount, e) == turnCount < BatchMinTurns

\* variant: a filter that lets the --session transcript through
FilterKeepNamed(sessions, processed, specific) ==
  IF specific # NoSession THEN sessions
  ELSE SelectSeq(sessions, LAMBDA p : p \notin processed)

\* variant: the ledger is consulted by file, whatever the spelling of the path
FilterByFile(sessions, processed, specific) ==
  LET file(p) == IF p = PathAlias THEN PathA ELSE p
  IN SelectSeq(sessions, LAMBDA p : \A q \in processed : file(q) # file(p))

\* variant: no ledger filter
FilterNothing(sessions, processed, specific) == sessions

\* main line 339: sessions.filter((s) => !processed.has(s.path)), with or
\* without --session
FilterProcessed(sessions, processed, specific) ==
  SelectSeq(sessions, LAMBDA p : p \notin processed)

\* variant: a catch that marks the failed session
CatchMarks(file, sessionPath, dry) == markSessionProcessed(file, sessionPath, dry)

\* the catch of main, lines 360-362: the error is logged, the ledger is
\* not written
CatchLedger(file, sessionPath, dry) == file

(***************************************************************************)
(* The extension's state in the host (live path)                           *)
(***************************************************************************)
IdleLive ==
  [pc |-> "unloaded", env |-> DefaultEnv, tools |-> {}, startHandlers |-> 0,
   shutdownHandlers |-> 0, turnCount |-> 0, memories |-> <<>>, mi |-> 0,
   stored |-> 0, failed |-> 0, posts |-> <<>>, notifications |-> <<>>,
   modelCalls |-> 0, outcome |-> "none"]

NoFn == [op |-> "none"]

\* the state of a process that has exited is gone
Forget(rec) == IF rec.pc = "ended" THEN IdleLive ELSE rec

\* how a POST /memory can end: 2xx, another status, or a rejected fetch
StoreOutcomes == {"ok", "non2xx", "rejected"}

(***************************************************************************)
(* Batch path: main and processSession (compound-review.js 250-371)        *)
(***************************************************************************)
\* node compound-review.js [--dry-run] [--session <path>]; lines 298-312:
\* without AUTOMEM_TOKEN or without pi on the PATH the process exits 1.
StartRunWith(r, e, dry, specific, hours, piFound) ==
  /\ ~Active(r)
  /\ live.pc \in {"unloaded", "ended"}
  /\ started < MaxRuns
  /\ LET rec == [IdleRun EXCEPT !.env = e, !.dryRun = dry,
                                !.specificSession = specific,
                                !.hours = hours,
                                !.ledgerAtStart = ledger,
                                !.carriedAtStart = carriedDone,
                                !.errorAtStart = errorLast]
         new == IF ~e.AUTOMEM_TOKEN THEN Abort(rec, "no-token")
                ELSE IF ~piFound THEN Abort(rec, "no-pi")
                ELSE [rec EXCEPT !.pc = "health"]
     IN run' = [q \in Runs |-> IF q = r THEN new
                               ELSE IF Active(q) THEN run[q] ELSE IdleRun]
  /\ started' = started + 1
  /\ overlapped' = (overlapped \/ \E q \in Runs : Active(q))
  /\ live' = Forget(live)
  /\ UNCHANGED <<ledger, carriedDone, errorLast, storeStages, fn>>

\* a run started by hand, with any flags, over the default window
StartRun(r) ==
  \E e \in BatchEnvs, dry \in BOOLEAN, specific \in {NoSession} \cup SessionArgs,
     piFound \in BOOLEAN :
    StartRunWith(r, e, dry, specific, DefaultHours, piFound)

\* a run that starts while no other run is in progress
StartRunAlone(r) ==
  /\ \A q \in Runs : ~Active(q)
  /\ StartRun(r)

\* variant: the failed health check is reported and the run goes on
HealthCheckReportOnly(r) ==
  /\ run[r].pc = "health"
  /\ \E healthy \in BOOLEAN :
       run' = [run EXCEPT ![r] =
                 [@ EXCEPT !.pc = "discover",
                           !.stderr = IF healthy THEN @ ELSE "unhealthy"]]
  /\ UNCHANGED <<ledger, started, overlapped, carriedDone, errorLast, storeStages,
                 live, fn>>

\* lines 314-325: GET /health; a rejection or a non-2xx answer exits 1
HealthCheck(r) ==
  /\ run[r].pc = "health"
  /\ \E healthy \in BOOLEAN :
       run' = [run EXCEPT ![r] = IF healthy THEN [@ EXCEPT !.pc = "discover"]
                                 ELSE Abort(@, "unhealthy")]
  /\ UNCHANGED <<ledger, started, overlapped, carriedDone, errorLast, storeStages,
                 live, fn>>

\* lines 327-335: the named session alone, or a scan of the sessions directory
Discover(r) ==
  /\ run[r].pc = "discover"
  /\ \E found \in DiscoveryResults(run[r].hours) :
       run' = [run EXCEPT ![r] =
                 [@ EXCEPT !.pc = "filter",
                           !.sessions = IF run[r].specificSession # NoSession
                                        THEN <<run[r].specificSession>>
                                        ELSE found]]
  /\ UNCHANGED <<ledger, started, overlapped, carriedDone, errorLast, storeStages,
                 live, fn>>

\* lines 337-349: read the ledger, drop the processed sessions, return when
\* nothing is left.  A readFileSync of an existing ledger that fails throws
\* out of main into the catch at 373-376.
Filter(r) ==
  /\ run[r].pc = "filter"
  /\ \E readable \in BOOLEAN :
       LET toProcess == FilterProcessed(run[r].sessions, getProcessedSessions(ledger),
                                        run[r].specificSession)
       IN run' = [run EXCEPT ![r] =
                    IF ledger.exists /\ ~readable THEN Abort(@, "fatal")
                    ELSE IF toProcess = <<>> THEN Exit(@, 0)
                    ELSE [@ EXCEPT !.pc = "session", !.idx = 1,
                                   !.toProcess = toProcess]]
  /\ UNCHANGED <<ledger, started, overlapped, carriedDone, errorLast, storeStages,
                 live, fn>>

\* processSession lines 251-258: read and parse the transcript, apply the
\* gate; a failing readFileSync throws into the catch of main (360-362)
ParseSession(r) ==
  /\ run[r].pc = "session"
  /\ \E readable \in BOOLEAN, transcript \in SampleTranscripts :
       LET threw == ~readable \/ CurrentPath(r) = PathMissing
           turnCount == IF threw THEN 0 ELSE parseSession(transcript).turnCount
           rec == [run[r] EXCEPT !.turnCount = turnCount,
                                 !.execEnded = "none",
                                 !.lastError = IF threw THEN "ENOENT" ELSE "none"]
       IN /\ run' = [run EXCEPT ![r] =
                 IF threw THEN NextSession(rec, "error")
                 ELSE IF BatchGate(turnCount, rec.env)
                   THEN NextSession(rec, "skipped-too-short")
                 ELSE [rec EXCEPT !.pc = "extract"]]
          /\ ledger' = IF threw THEN CatchLedger(ledger, CurrentPath(r), rec.dryRun)
                       ELSE ledger
          /\ errorLast' = IF threw THEN errorLast \cup {CurrentPath(r)}
                          ELSE IF BatchGate(turnCount, rec.env)
                            THEN errorLast \ {CurrentPath(r)}
                          ELSE errorLast
  /\ UNCHANGED <<started, overlapped, carriedDone, storeStages, live, fn>>

\* variant: every failure of the pi call gives the same error
ExecErrorConflated(exec, killed) == "Command failed"

\* the message of the error that leaves extractMemories when execSync
\* throws (lines 207-211): the named timeout error when e.killed is set;
\* otherwise the error of execSync itself, which for an exceeded timeout is
\* the ETIMEDOUT error of spawnSync and for an exit status other than 0 is
\* "Command failed: ..."
ExecError(exec, killed) ==
  IF exec = "timeout"
  THEN IF killed THEN "Extraction timed out after 90s" ELSE "spawnSync ETIMEDOUT"
  ELSE "Command failed"

\* processSession lines 260-277 with extractMemories: the pi call, the
\* parse of its answer, the empty result and the dry-run preview.  Whether
\* the error of a timed-out execSync carries the killed flag is left open.
Extract(r) ==
  /\ run[r].pc = "extract"
  /\ \E exec \in ExecOutcomes, stdout \in BatchResponses, killed \in BOOLEAN :
       LET parsed == IF exec = "returned" THEN parseBatchResponse(stdout)
                     ELSE ExtractResult(TRUE, <<>>)
           \* the dry-run preview reads m.type of every element (line 273):
           \* a null element throws out of processSession
           res == IF /\ ~parsed.threw
                     /\ run[r].dryRun
                     /\ \E i \in 1..Len(parsed.memories) : IsNull(parsed.memories[i])
                  THEN ExtractResult(TRUE, <<>>)
                  ELSE parsed
           message == IF exec # "returned" THEN ExecError(exec, killed)
                      ELSE IF parsed.threw THEN "SyntaxError"
                      ELSE IF res.threw THEN "TypeError"
                      ELSE "none"
           rec == [run[r] EXCEPT !.extracted = @ \cup {CurrentPath(r)},
                                 !.execEnded = exec,
                                 !.lastError = message]
       IN /\ run' = [run EXCEPT ![r] =
                 IF res.threw THEN NextSession(rec, "error")
                 ELSE IF Len(res.memories) = 0
                   THEN [rec EXCEPT !.pc = "mark", !.result = "empty"]
                 ELSE IF rec.dryRun
                   THEN [rec EXCEPT !.pc = "mark", !.result = "dry",
                                    !.memories = res.memories]
                 ELSE [rec EXCEPT !.pc = "store", !.memories = res.memories, !.mi = 1]]
          /\ ledger' = IF res.threw THEN CatchLedger(ledger, CurrentPath(r), rec.dryRun)
                       ELSE ledger
          /\ errorLast' = IF res.threw THEN errorLast \cup {CurrentPath(r)}
                          ELSE errorLast
  /\ UNCHANGED <<started, overlapped, carriedDone, storeStages, live, fn>>

\* variant: the store loop is left after its first iteration, so that the
\* session is marked while memories are still to be stored
StoreOneThenMark(r) ==
  /\ run[r].pc = "store"
  /\ LET k == run[r].memories[run[r].mi]
         sent == BatchRequestSent(k)
         first == sent /\ CurrentPath(r) \notin run[r].posted
     IN /\ \E http \in StoreOutcomes :
             LET ok == sent /\ http = "ok" IN
             run' = [run EXCEPT ![r] =
               [@ EXCEPT !.stored = IF ok THEN @ + 1 ELSE @,
                         !.failed = IF ok THEN @ ELSE @ + 1,
                         !.posts = IF sent THEN Append(@, [i |-> run[r].mi, ok |-> ok])
                                   ELSE @,
                         !.posted = IF sent THEN @ \cup {CurrentPath(r)} ELSE @,
                         !.mi = @ + 1,
                         !.pc = "mark",
                         !.result = "stored"]]
        /\ storeStages' = IF first THEN [storeStages EXCEPT ![CurrentPath(r)] = @ + 1]
                          ELSE storeStages
  /\ UNCHANGED <<ledger, started, overlapped, carriedDone, errorLast, live, fn>>

\* processSession lines 282-290: one iteration of the store loop
StoreOne(r) ==
  /\ run[r].pc = "store"
  /\ LET k == run[r].memories[run[r].mi]
         last == run[r].mi = Len(run[r].memories)
         sent == BatchRequestSent(k)
         first == sent /\ CurrentPath(r) \notin run[r].posted
     IN /\ \E http \in StoreOutcomes :
             LET ok == sent /\ http = "ok" IN
             run' = [run EXCEPT ![r] =
               [@ EXCEPT !.stored = IF ok THEN @ + 1 ELSE @,
                         !.failed = IF ok THEN @ ELSE @ + 1,
                         !.posts = IF sent THEN Append(@, [i |-> run[r].mi, ok |-> ok])
                                   ELSE @,
                         !.posted = IF sent THEN @ \cup {CurrentPath(r)} ELSE @,
                         !.mi = @ + 1,
                         !.pc = IF last THEN "mark" ELSE "store",
                         !.result = IF last THEN "stored" ELSE @]]
        /\ storeStages' = IF first THEN [storeStages EXCEPT ![CurrentPath(r)] = @ + 1]
                          ELSE storeStages
  /\ UNCHANGED <<ledger, started, overlapped, carriedDone, errorLast, live, fn>>

\* variant: a session whose extraction returned nothing is left unmarked
MarkUnlessEmpty(r) ==
  /\ run[r].pc = "mark"
  /\ ledger' = IF run[r].result = "empty" THEN ledger
               ELSE markSessionProcessed(ledger, CurrentPath(r), run[r].dryRun)
  /\ run' = [run EXCEPT ![r] =
       NextSession([@ EXCEPT !.totalMemories = @ + Len(run[r].memories),
                             !.totalStored = @ + run[r].stored,
                             !.carriedNow = IF run[r].result = "stored"
                                            THEN @ \cup {CurrentPath(r)} ELSE @],
                   IF run[r].result = "empty" THEN "skipped-empty-extraction"
                   ELSE "processed")]
  /\ errorLast' = errorLast \ {CurrentPath(r)}
  /\ UNCHANGED <<started, overlapped, carriedDone, storeStages, live, fn>>

\* variant: a session with a failed store call is left unmarked
MarkUnlessFailed(r) ==
  /\ run[r].pc = "mark"
  /\ ledger' = IF run[r].failed > 0 THEN ledger
               ELSE markSessionProcessed(ledger, CurrentPath(r), run[r].dryRun)
  /\ run' = [run EXCEPT ![r] =
       NextSession([@ EXCEPT !.totalMemories = @ + Len(run[r].memories),
                             !.totalStored = @ + run[r].stored,
                             !.carriedNow = IF run[r].result = "stored"
                                            THEN @ \cup {CurrentPath(r)} ELSE @],
                   IF run[r].result = "empty" THEN "skipped-empty-extraction"
                   ELSE "processed")]
  /\ errorLast' = errorLast \ {CurrentPath(r)}
  /\ UNCHANGED <<started, overlapped, carriedDone, storeStages, live, fn>>

\* main lines 355-359: add to the totals and mark the session
Mark(r) ==
  /\ run[r].pc = "mark"
  /\ ledger' = markSessionProcessed(ledger, CurrentPath(r), run[r].dryRun)
  /\ run' = [run EXCEPT ![r] =
       NextSession([@ EXCEPT !.totalMemories = @ + Len(run[r].memories),
                             !.totalStored = @ + run[r].stored,
                             !.carriedNow = IF run[r].result = "stored"
                                            THEN @ \cup {CurrentPath(r)} ELSE @],
                   IF run[r].result = "empty" THEN "skipped-empty-extraction"
                   ELSE "processed")]
  /\ errorLast' = errorLast \ {CurrentPath(r)}
  /\ UNCHANGED <<started, overlapped, carriedDone, storeStages, live, fn>>

\* main lines 365-370: the three lines of the summary; "Sessions processed"
\* is toProcess.length, and "Memories stored" is left out of a dry run
SummaryLines(rec) ==
  [printed |-> TRUE, sessionsProcessed |-> Len(rec.toProcess),
   memoriesExtracted |-> rec.totalMemories, storedPrinted |-> ~rec.dryRun,
   memoriesStored |-> rec.totalStored]

\* main lines 365-371: the summary; main returns and the process exits 0
Summary(r) ==
  /\ run[r].pc = "summary"
  /\ run' = [run EXCEPT ![r] = [Exit(@, 0) EXCEPT !.summary = SummaryLines(run[r])]]
  /\ carriedDone' = carriedDone \cup run[r].carriedNow
  /\ UNCHANGED <<ledger, started, overlapped, errorLast, storeStages, live, fn>>

(***************************************************************************)
(* Live path: the extension's load and its session_shutdown handler        *)
(***************************************************************************)
ToolNames == {"automem_store", "automem_recall", "automem_health"}

\* what the host's session manager can hold at shutdown
SampleEntries == SampleTranscripts

\* text of a 2xx Gemini answer
LiveResponses ==
  { <<"[", "m", ",", "m", ",", "m", "]">>,
    <<"F", NL, "[", "t", ",", "m", "]", NL, "F">>,
    <<"[", "x", "]">>,
    <<"x">>,
    <<>> }

\* how a fetch can end
HttpOutcomes == {"ok", "non2xx", "rejected"}

batchPart == <<ledger, run, started, overlapped, carriedDone, errorLast, storeStages>>

\* session_shutdown handler line 544
LiveGate(turnCount, e) == turnCount < AUTOMEM_MIN_TURNS(e)

\* variant: the handler notifies nobody
NotifySilent(rec, text, level) == rec

Notify(rec, text, level) ==
  [rec EXCEPT !.notifications = Append(@, [text |-> text, level |-> level])]

End(rec, outcome) == [rec EXCEPT !.pc = "ended", !.outcome = outcome]

\* variant: the handler lets the error through to the host
HandlerRethrow(rec) == End(rec, "rejected")

\* handler lines 584-587: catch (error), console.error, and the handler's
\* promise resolves
HandlerCatch(rec) == End(rec, "error-caught")

\* variant: the tools are registered whatever the environment
RegisteredToolsAlways(e) == ToolNames

\* lines 268-277 and the three pi.registerTool calls (280, 362, 481): the
\* function returns before them when AUTOMEM_TOKEN is not set
RegisteredTools(e) == IF e.AUTOMEM_TOKEN THEN ToolNames ELSE {}

\* variant: the shutdown hook is registered whatever AUTOMEM_AUTO_EXTRACT says
ShutdownHandlersUnconditional(e) == IF e.AUTOMEM_TOKEN THEN 1 ELSE 0

\* lines 535-537: pi.on("session_shutdown", ...) inside
\* if (AUTOMEM_AUTO_EXTRACT), reached only with a token (return at 276)
ShutdownHandlers(e) ==
  IF e.AUTOMEM_TOKEN /\ AUTOMEM_AUTO_EXTRACT(e) THEN 1 ELSE 0

\* automemExtension(pi), lines 267-277 and 519-537: without a token only
\* the warning session_start handler is registered
LoadExtension ==
  /\ live.pc \in {"unloaded", "ended"}
  /\ started = 0
  /\ \E e \in Envs :
       live' = [IdleLive EXCEPT
                  !.pc = "loaded", !.env = e,
                  !.tools = RegisteredTools(e),
                  !.startHandlers = 1,
                  !.shutdownHandlers = ShutdownHandlers(e)]
  /\ UNCHANGED <<batchPart, fn>>

\* the host emits session_shutdown; handler lines 538-553: render the
\* entries, gate on the turn count, require the model credential, notify.
\* getEntries() and ui.notify() are the host's and can throw (entriesThrow,
\* notifyThrows); both calls are inside the try of line 538.
SessionShutdown ==
  /\ live.pc = "loaded"
  /\ \E entries \in SampleEntries, entriesThrow \in BOOLEAN, notifyThrows \in BOOLEAN :
       LET c == extractConversationText(entries)
           rec == [live EXCEPT !.turnCount = c.turnCount]
       IN live' =
            IF live.shutdownHandlers = 0 THEN End(live, "not-registered")
            ELSE IF entriesThrow THEN HandlerCatch(live)
            ELSE IF LiveGate(c.turnCount, live.env) THEN End(rec, "skipped-too-short")
            ELSE IF ~live.env.GEMINI_API_KEY THEN End(rec, "skipped-no-key")
            ELSE IF notifyThrows THEN HandlerCatch(rec)
            ELSE [Notify(rec, "extracting", "info") EXCEPT !.pc = "extract"]
  /\ UNCHANGED <<batchPart, fn>>

\* handler lines 555-559 with callGeminiForExtraction: a thrown error would
\* be caught at line 584
LiveExtract ==
  /\ live.pc = "extract"
  /\ \E http \in HttpOutcomes, text \in LiveResponses :
       LET res == IF http = "ok" THEN parseLiveResponse(text)
                  ELSE ExtractResult(FALSE, <<>>)
           rec == [live EXCEPT !.modelCalls = @ + 1]
       IN live' =
            IF res.threw THEN HandlerCatch(rec)
            ELSE IF Len(res.memories) = 0 THEN End(rec, "skipped-empty-extraction")
            ELSE [rec EXCEPT !.pc = "store", !.memories = res.memories, !.mi = 1]
  /\ UNCHANGED <<batchPart, fn>>

\* storeExtractedMemories lines 235-262: one iteration of the loop
LiveStoreOne ==
  /\ live.pc = "store"
  /\ LET k == live.memories[live.mi]
         last == live.mi = Len(live.memories)
         sent == LiveRequestSent(k)
     IN \E http \in StoreOutcomes :
          LET ok == sent /\ http = "ok" IN
          live' = [live EXCEPT
                     !.stored = IF ok THEN @ + 1 ELSE @,
                     !.failed = IF ok THEN @ ELSE @ + 1,
                     !.posts = IF sent THEN Append(@, [i |-> live.mi, ok |-> ok])
                               ELSE @,
                     !.mi = @ + 1,
                     !.pc = IF last THEN "notify" ELSE "store"]
  /\ UNCHANGED <<batchPart, fn>>

\* variant: the handler appends the session's file to the ledger
LiveNotifyMarks ==
  /\ live.pc = "notify"
  /\ \E notifyThrows \in BOOLEAN :
       LET a == IF live.stored > 0 THEN Notify(live, "stored", "success") ELSE live
           b == IF live.failed > 0 THEN Notify(a, "failed", "warning") ELSE a
       IN live' = IF notifyThrows THEN HandlerCatch(live) ELSE End(b, "processed")
  /\ ledger' = markSessionProcessed(ledger, PathA, FALSE)
  /\ UNCHANGED <<run, started, overlapped, carriedDone, errorLast, storeStages, fn>>

\* handler lines 572-583: the result notifications; a ui.notify() that
\* throws is caught at line 584
LiveNotify ==
  /\ live.pc = "notify"
  /\ \E notifyThrows \in BOOLEAN :
       LET a == IF live.stored > 0 THEN Notify(live, "stored", "success") ELSE live
           b == IF live.failed > 0 THEN Notify(a, "failed", "warning") ELSE a
       IN live' = IF notifyThrows THEN HandlerCatch(live) ELSE End(b, "processed")
  /\ UNCHANGED <<batchPart, fn>>

(***************************************************************************)
(* The system: live sessions by day, batch runs one at a time afterwards   *)
(***************************************************************************)
Init ==
  /\ ledger = NoLedgerFile
  /\ run = [r \in Runs |-> IdleRun]
  /\ started = 0
  /\ overlapped = FALSE
  /\ carriedDone = {}
  /\ errorLast = {}
  /\ storeStages = [p \in SessionArgs \cup {PathAlias} |-> 0]
  /\ live = IdleLive
  /\ fn = NoFn

BatchStep(r) ==
  \/ HealthCheck(r)
  \/ Discover(r)
  \/ Filter(r)
  \/ ParseSession(r)
  \/ Extract(r)
  \/ StoreOne(r)
  \/ Mark(r)
  \/ Summary(r)

Next ==
  \/ LoadExtension
  \/ SessionShutdown
  \/ LiveExtract
  \/ LiveStoreOne
  \/ LiveNotify
  \/ \E r \in Runs : StartRunAlone(r) \/ BatchStep(r)

Spec == Init /\ [][Next]_vars

(***************************************************************************)
(* Two scheduled runs that may overlap: nothing in the script prevents a   *)
(* second process from starting while the first is still running.          *)
(***************************************************************************)
\* an hourly schedule (--hours 1); each of the two processes runs once
StartRunScheduled(r) ==
  /\ started < Cardinality(Runs)
  /\ \E dry \in BOOLEAN : StartRunWith(r, DefaultEnv, dry, NoSession, 1, TRUE)

NextOverlap ==
  \E r \in Runs : StartRunScheduled(r) \/ BatchStep(r)

SpecOverlap == Init /\ [][NextOverlap]_vars

(***************************************************************************)
(* Runs that are terminated from outside (a signal, a power cut): the      *)
(* process stops between two of its steps; what it wrote stays written.    *)
(***************************************************************************)
InSession(r) == run[r].pc \in {"session", "extract", "store", "mark"}

\* the process of run r is terminated; no handler of the script runs
Kill(r) ==
  /\ Active(r)
  /\ run' = [run EXCEPT ![r] = [@ EXCEPT !.pc = "done", !.exitCode = 137,
                                         !.stderr = "killed"]]
  /\ carriedDone' = carriedDone \cup run[r].carriedNow
  /\ errorLast' = IF InSession(r) THEN errorLast \cup {CurrentPath(r)} ELSE errorLast
  /\ UNCHANGED <<ledger, started, overlapped, storeStages, live, fn>>

\* a scheduled run with the default environment, started when no other run
\* is in progress
StartRunUnattended(r) ==
  /\ \A q \in Runs : ~Active(q)
  /\ \E dry \in BOOLEAN, hours \in HoursArgs :
       StartRunWith(r, DefaultEnv, dry, NoSession, hours, TRUE)

NextCrash ==
  \E r \in Runs : StartRunUnattended(r) \/ BatchStep(r) \/ Kill(r)

SpecCrash == Init /\ [][NextCrash]_vars

(***************************************************************************)
(* A day of work and the night after it: the session whose transcript is   *)
(* the file at PathA ends and the live hook stores its memories; the       *)
(* next scheduled hourly run starts afterwards.                            *)
(***************************************************************************)
\* main lines 298-312 pass (token set, pi found); --hours 1, no other flag
StartRunAfterLive(r) ==
  /\ live.pc = "ended"
  /\ live.stored > 0
  /\ started = 0
  /\ run' = [run EXCEPT ![r] = [IdleRun EXCEPT !.pc = "health", !.hours = 1,
                                               !.ledgerAtStart = ledger,
                                               !.carriedAtStart = carriedDone,
                                               !.errorAtStart = errorLast]]
  /\ started' = started + 1
  /\ UNCHANGED <<ledger, overlapped, carriedDone, errorLast, storeStages, live, fn>>

NextLiveThenBatch ==
  \/ LoadExtension
  \/ SessionShutdown
  \/ LiveExtract
  \/ LiveStoreOne
  \/ LiveNotify
  \/ \E r \in Runs : StartRunAfterLive(r) \/ BatchStep(r)

SpecLiveThenBatch == Init /\ [][NextLiveThenBatch]_vars

(***************************************************************************)
(* Scheduled runs whose external calls all come back: execSync returns,    *)
(* fails or is killed at its 90 s timeout (187-191), and every fetch is    *)
(* taken to settle, so a run that can take a step takes it.                *)
(***************************************************************************)
NextReturning ==
  \E r \in Runs : StartRunUnattended(r) \/ BatchStep(r)

SpecReturning ==
  Init /\ [][NextReturning]_vars /\ \A r \in Runs : WF_vars(BatchStep(r))

(***************************************************************************)
(* The host at work: the session_start handler and the three tools         *)
(* (part_000 267-533, the same code as extensions/automem.ts 78-339)       *)
(***************************************************************************)
\* bodies of a 2xx answer: the documented object, a recall answer with no
\* results, an object without a results field, and a body that is not JSON
ResponseBodies == {"valid", "empty-results", "no-results-field", "not-json"}

\* variant: the handler notifies whatever the health request gave
sessionStartNotifiesAlways(e, http, body, notifyThrows) ==
  [op |-> "session_start", token |-> e.AUTOMEM_TOKEN, http |-> http, body |-> body,
   notifications |-> <<"info">>, requests |-> 1, threw |-> FALSE]

\* the session_start handler that the load registered.  Without a token
\* (lines 269-274): one warning, no request, no try.  With a token (lines
\* 520-533): GET /health, response.json() and ui.notify inside the try,
\* and a catch that does nothing.
sessionStartHandler(e, http, body, notifyThrows) ==
  IF ~e.AUTOMEM_TOKEN
    THEN [op |-> "session_start", token |-> FALSE, http |-> "none", body |-> "none",
          notifications |-> <<"warning">>, requests |-> 0, threw |-> notifyThrows]
  ELSE [op |-> "session_start", token |-> TRUE, http |-> http, body |-> body,
        notifications |-> IF http = "ok" /\ body # "not-json" THEN <<"info">>
                          ELSE <<>>,
        requests |-> 1, threw |-> FALSE]

\* the host emits session_start
SessionStart ==
  /\ live.pc = "loaded"
  /\ live.startHandlers = 1
  /\ \E http \in HttpOutcomes, body \in ResponseBodies, notifyThrows \in BOOLEAN :
       fn' = sessionStartHandler(live.env, http, body, notifyThrows)
  /\ UNCHANGED <<batchPart, live>>

\* what the try block of a tool's execute does: it returns a result or an
\* exception leaves it (automem_store 317-348, automem_recall 399-467,
\* automem_health 488-508)
ToolTry(name, http, body) ==
  IF http = "rejected" THEN [thrown |-> TRUE]
  ELSE IF http = "non2xx"
    THEN [thrown |-> FALSE, isError |-> TRUE,
          text |-> CASE name = "automem_store" -> "Failed to store memory"
                     [] name = "automem_recall" -> "Failed to recall memories"
                     [] OTHER -> "AutoMem service is not healthy"]
  ELSE IF body = "not-json" THEN [thrown |-> TRUE]
  ELSE IF name = "automem_store"
    THEN [thrown |-> FALSE, isError |-> FALSE, text |-> "Memory stored successfully"]
  ELSE IF name = "automem_health"
    THEN [thrown |-> FALSE, isError |-> FALSE, text |-> "AutoMem Status"]
  ELSE IF body = "no-results-field" THEN [thrown |-> TRUE]
  ELSE IF body = "empty-results"
    THEN [thrown |-> FALSE, isError |-> FALSE, text |-> "No memories found"]
  ELSE [thrown |-> FALSE, isError |-> FALSE, text |-> "Found memories"]

\* variant: the catch block lets the exception through
ToolCatchRethrows(name) == [thrown |-> TRUE]

\* the catch block of execute (store 349-357, recall 468-476, health
\* 509-515): a result with isError true
ToolCatch(name) ==
  [thrown |-> FALSE, isError |-> TRUE,
   text |-> IF name = "automem_health" THEN "Cannot reach AutoMem"
            ELSE "Error connecting to AutoMem"]

\* the model calls a registered tool
ToolExecute ==
  /\ live.pc = "loaded"
  /\ \E name \in live.tools, http \in HttpOutcomes, body \in ResponseBodies :
       LET attempt == ToolTry(name, http, body)
       IN fn' = [op |-> "tool", name |-> name, http |-> http, body |-> body,
                 result |-> IF attempt.thrown THEN ToolCatch(name) ELSE attempt]
  /\ UNCHANGED <<batchPart, live>>

NextHost == LoadExtension \/ SessionStart \/ ToolExecute

SpecHost == Init /\ [][NextHost]_vars

(***************************************************************************)
(* A scheduled hourly run, and runs on one session named under another     *)
(* spelling of its path                                                    *)
(***************************************************************************)
StartRunNamed(r) ==
  /\ \A q \in Runs : ~Active(q)
  /\ \E specific \in {NoSession, PathAlias} :
       StartRunWith(r, DefaultEnv, FALSE, specific, 1, TRUE)

NextAlias ==
  \E r \in Runs : StartRunNamed(r) \/ BatchStep(r)

SpecAlias == Init /\ [][NextAlias]_vars

(***************************************************************************)
(* The response parsers of both paths as functions of the raw answer       *)
(***************************************************************************)
\* tokens of the array part of an answer
BodyAlphabet == {"[", "]", ",", "m", "c", "i", "x"}
Bodies == UNION {[1..n -> BodyAlphabet] : n \in 0..MaxBody}
\* what can precede and follow it: fences, prose, whitespace
Prefixes == {<<>>, <<Fence>>, <<Fence, "j", NL>>, <<"x", " ">>, <<NL>>}
Suffixes == {<<>>, <<Fence>>, <<NL, Fence>>, <<" ", "x">>}
ResponseInputs == {p \o b \o q : p \in Prefixes, b \in Bodies, q \in Suffixes}

InitParse ==
  /\ Init!1 /\ Init!2 /\ Init!3 /\ Init!4 /\ Init!5 /\ Init!6 /\ Init!7 /\ Init!8
  /\ fn \in [op : {"response"}, text : ResponseInputs]

\* the same answer given to extractMemories (batch) and to
\* callGeminiForExtraction (live)
ParseResponse ==
  /\ fn.op = "response"
  /\ fn' = [op |-> "parsed", text |-> fn.text,
            batch |-> parseBatchResponse(fn.text),
            live |-> parseLiveResponse(fn.text)]
  /\ UNCHANGED <<batchPart, live>>

NextParse == ParseResponse

SpecParse == InitParse /\ [][NextParse]_vars

(***************************************************************************)
(* One transcript entry through the parser of each path                    *)
(***************************************************************************)
TextLengths == {1, 3, EntryCap - 1, EntryCap, EntryCap + 1, LongText}

\* a text of the given length: letters, or blanks only
MakeText(len, pattern) ==
  [i \in 1..len |-> IF pattern = "blank" THEN " "
                    ELSE IF i % 3 = 0 THEN "x" ELSE IF i % 3 = 1 THEN "y" ELSE "z"]

\* the text as one string, or as two text blocks around an image block
\* (the blocks' texts joined by a newline give a text of length len)
MakeLine(role, ckind, len, pattern) ==
  LET t == MakeText(len, pattern)
      h == (len - 1) \div 2
  IN IF ckind = "string" \/ len < 3
       THEN Line(TRUE, "message", TRUE, role, "string", t, <<>>)
       ELSE Line(TRUE, "message", TRUE, role, "blocks", <<>>,
                 <<Block("text", SubSeq(t, 1, h)), Block("image", <<>>),
                   Block("text", SubSeq(t, h + 2, len))>>)

EntryInputs ==
  {MakeLine(role, ckind, len, pattern) :
     role \in {"user", "assistant", "system"}, ckind \in {"string", "blocks"},
     len \in TextLengths, pattern \in {"letters", "blank"}}

\* transcripts of up to MaxLines lines: a user and an assistant message, a
\* line that is no JSON, a user message cut off in the middle of its JSON,
\* a message of another role, a user message of blanks, and a record that
\* is no message
TranscriptInputs ==
  LET alphabet ==
        {UserLine(<<"h">>), AssistantLine(<<"y">>), MalformedLine,
         Line(FALSE, "message", TRUE, "user", "string", <<"q">>, <<>>),
         Line(TRUE, "message", TRUE, "system", "string", <<"s">>, <<>>),
         UserLine(<<" ">>),
         Line(TRUE, "session", FALSE, "", "none", <<>>, <<>>)}
  IN UNION {[1..n -> alphabet] : n \in 0..MaxLines}

\* the caps on the conversation inside the extraction prompt
BatchPromptCap == 15000
LivePromptCap == 30000

\* variant: the whole conversation goes into the prompt
BatchPromptConversationUncut(conversationText) == conversationText

\* extractMemories line 160: conversationText.slice(0, 15000)
BatchPromptConversation(conversationText) == Slice0(conversationText, BatchPromptCap)

\* callGeminiForExtraction line 178: conversationText.slice(0, 30000)
LivePromptConversation(conversationText) == Slice0(conversationText, LivePromptCap)

\* conversations of n user messages, all of EntryCap characters but the
\* last, which has x: with 8 messages x = 938 gives a formatted text of
\* BatchPromptCap characters, with 15 messages x = 1882 one of LivePromptCap
PromptInputs ==
  [op : {"conversation"}, n : {1, 8, 15},
   x : {1, 937, 938, 939, 1881, 1882, 1883}]

InitText ==
  /\ Init!1 /\ Init!2 /\ Init!3 /\ Init!4 /\ Init!5 /\ Init!6 /\ Init!7 /\ Init!8
  /\ fn \in [op : {"entry"}, line : EntryInputs]
              \cup [op : {"lines"}, lines : TranscriptInputs]
              \cup PromptInputs

\* the conversation is parsed and formatted, and cut for the prompt, on
\* both paths
BuildPrompt ==
  /\ fn.op = "conversation"
  /\ LET lines == [i \in 1..fn.n |->
                     UserLine(MakeText(IF i < fn.n THEN EntryCap ELSE fn.x,
                                       "letters"))]
         batchText == formatConversation(parseSession(lines).entries)
         liveText == extractConversationText(lines).text
     IN fn' = [op |-> "prompt", n |-> fn.n, x |-> fn.x,
               batchText |-> batchText, liveText |-> liveText,
               batch |-> BatchPromptConversation(batchText),
               live |-> LivePromptConversation(liveText)]
  /\ UNCHANGED <<batchPart, live>>

\* a transcript given to parseSession, as it is and without the lines that
\* JSON.parse rejects, and as session entries to extractConversationText
ParseLines ==
  /\ fn.op = "lines"
  /\ fn' = [op |-> "parsed", lines |-> fn.lines,
            batch |-> parseSession(fn.lines),
            cleaned |-> parseSession(SelectSeq(fn.lines, LAMBDA l : l.json)),
            live |-> extractConversationText(fn.lines)]
  /\ UNCHANGED <<batchPart, live>>

\* the same entry given to parseSession (batch) and to
\* extractConversationText (live)
ForwardEntry ==
  /\ fn.op = "entry"
  /\ fn' = [op |-> "forwarded", line |-> fn.line,
            batch |-> parseSession(<<fn.line>>),
            live |-> extractConversationText(<<fn.line>>)]
  /\ UNCHANGED <<batchPart, live>>

NextText == ForwardEntry \/ ParseLines \/ BuildPrompt

SpecText == InitText /\ [][NextText]_vars

(***************************************************************************)
(* findRecentSessions(baseDir, hoursAgo) as a function of the directory    *)
(* tree and the clock (compound-review.js 73-102)                          *)
(***************************************************************************)
\* Date.now() at the call, in milliseconds
Now == 200000000

Chars(str) ==
  CASE str = "a.jsonl" -> <<"a", ".", "j", "s", "o", "n", "l">>
    [] str = "b.jsonl" -> <<"b", ".", "j", "s", "o", "n", "l">>
    [] str = "c.jsonl" -> <<"c", ".", "j", "s", "o", "n", "l">>
    [] str = "d.jsonl" -> <<"d", ".", "j", "s", "o", "n", "l">>
    [] str = "n.json"  -> <<"n", ".", "j", "s", "o", "n">>
    [] str = "sub"     -> <<"s", "u", "b">>
    [] OTHER           -> <<"s", "u", "b", "a", "g", "e", "n", "t", "-",
                            "a", "r", "t", "i", "f", "a", "c", "t", "s">>

\* the directory name that scanDir does not enter (line 82)
ReservedName == Chars("subagent-artifacts")

\* name.endsWith(".jsonl")
EndsWithJsonl(name) ==
  LET suffix == <<".", "j", "s", "o", "n", "l">>
  IN /\ Len(name) >= Len(suffix)
     /\ SubSeq(name, Len(name) - Len(suffix) + 1, Len(name)) = suffix

\* const cutoff = Date.now() - hoursAgo * 60 * 60 * 1000
Cutoff(now, hoursAgo) == now - hoursAgo * 60 * 60 * 1000

\* variant: a file modified exactly at the cutoff is left out
InWindowAfterCutoff(mtimeMs, cutoff) == mtimeMs > cutoff

\* line 86: stat.mtimeMs >= cutoff
InWindow(mtimeMs, cutoff) == mtimeMs >= cutoff

File(name, mtimeMs) ==
  [isDirectory |-> FALSE, name |-> name, mtimeMs |-> mtimeMs, statOk |-> TRUE]
\* an entry on which statSync throws (a dangling link, a file removed after
\* the directory was listed)
BrokenFile(name) ==
  [isDirectory |-> FALSE, name |-> name, mtimeMs |-> 0, statOk |-> FALSE]
Dir(name, readable, entries) ==
  [isDirectory |-> TRUE, name |-> name, readable |-> readable, entries |-> entries]

RECURSIVE scanDir(_, _, _)
RECURSIVE ScanFrom(_, _, _, _)
\* scanDir(dir), lines 77-98: a directory that cannot be read contributes
\* nothing (the catch at 95-97)
scanDir(dir, fullPath, cutoff) ==
  IF ~dir.readable THEN <<>> ELSE ScanFrom(dir.entries, 1, fullPath, cutoff)

\* lines 79-97: the try encloses the whole for-loop, so a statSync that
\* throws (line 85) leaves the loop of this directory through the catch
StatThrowsEndsLoop(entry) == EndsWithJsonl(entry.name) /\ ~entry.statOk

\* the for-loop of scanDir over entries i.. of the directory at dirPath;
\* what was pushed before an exception stays in sessions
ScanFrom(entries, i, dirPath, cutoff) ==
  IF i > Len(entries) THEN <<>>
  ELSE LET entry == entries[i]
           fullPath == Append(dirPath, entry.name)
           isDir == entry.isDirectory /\ entry.name # ReservedName
           found ==
             IF isDir
               THEN scanDir(entry, fullPath, cutoff)
             ELSE IF EndsWithJsonl(entry.name)
               THEN IF entry.statOk /\ InWindow(entry.mtimeMs, cutoff)
                      THEN <<[path |-> fullPath, mtime |-> entry.mtimeMs,
                              name |-> entry.name]>>
                      ELSE <<>>
             ELSE <<>>
       IN IF ~isDir /\ StatThrowsEndsLoop(entry) THEN <<>>
          ELSE found \o ScanFrom(entries, i + 1, dirPath, cutoff)

RECURSIVE SortByMtime(_)
\* sessions.sort((a, b) => b.mtime - a.mtime): stable, greatest mtime first
SortByMtime(sessions) ==
  IF sessions = <<>> THEN <<>>
  ELSE LET n == Len(sessions)
           sorted == SortByMtime(SubSeq(sessions, 1, n - 1))
           x == sessions[n]
           before == SelectSeq(sorted, LAMBDA y : y.mtime >= x.mtime)
           after == SelectSeq(sorted, LAMBDA y : y.mtime < x.mtime)
       IN before \o <<x>> \o after

findRecentSessions(baseDir, hoursAgo, now) ==
  SortByMtime(scanDir(baseDir, <<>>, Cutoff(now, hoursAgo)))

\* modification times around the two cutoffs and around the clock
MTimes ==
  {Cutoff(Now, DefaultHours) - 1, Cutoff(Now, DefaultHours),
   Cutoff(Now, 1), Now, Now + 1}

\* base directories: a file, a subdirectory with a transcript and a
\* directory of its own that holds one, and a further transcript
Trees ==
  {Dir(<<>>, TRUE,
       <<File(Chars(first), t1),
         Dir(Chars(sub), readable,
             <<File(Chars("b.jsonl"), t2),
               Dir(Chars("sub"), TRUE, <<File(Chars("a.jsonl"), Now)>>)>>),
         File(Chars("c.jsonl"), t3)>>) :
     first \in {"a.jsonl", "n.json"}, sub \in {"sub", "subagent-artifacts"},
     readable \in BOOLEAN, t1 \in {Cutoff(Now, DefaultHours), Now},
     t2 \in MTimes, t3 \in MTimes}

InitDiscovery ==
  /\ Init!1 /\ Init!2 /\ Init!3 /\ Init!4 /\ Init!5 /\ Init!6 /\ Init!7 /\ Init!8
  /\ fn \in [op : {"tree"}, baseDir : Trees, hoursAgo : HoursArgs]

FindSessions ==
  /\ fn.op = "tree"
  /\ fn' = [op |-> "found", baseDir |-> fn.baseDir, hoursAgo |-> fn.hoursAgo,
            sessions |-> findRecentSessions(fn.baseDir, fn.hoursAgo, Now)]
  /\ UNCHANGED <<batchPart, live>>

NextDiscovery == FindSessions

SpecDiscovery == InitDiscovery /\ [][NextDiscovery]_vars

\* seq with x put in front of its element at position pos
InsertAt(seq, pos, x) ==
  SubSeq(seq, 1, pos - 1) \o <<x>> \o SubSeq(seq, pos, Len(seq))

\* base directories in which a read fails: the subdirectory may be
\* unreadable, and an entry whose stat throws may stand before, between or
\* after the transcripts of the root, and before the one of the subdirectory
FaultyTrees ==
  {LET inner == <<File(Chars("b.jsonl"), Now)>>
       outer == <<File(Chars("a.jsonl"), t1),
                  Dir(Chars("sub"), readable,
                      IF brokenInSub
                        THEN InsertAt(inner, 1, BrokenFile(Chars("d.jsonl")))
                        ELSE inner),
                  File(Chars("c.jsonl"), t3)>>
   IN Dir(<<>>, TRUE,
          IF pos = 0 THEN outer
          ELSE InsertAt(outer, pos, BrokenFile(Chars("d.jsonl")))) :
     pos \in 0..4, readable \in BOOLEAN, brokenInSub \in BOOLEAN,
     t1 \in {Cutoff(Now, DefaultHours), Cutoff(Now, 1)},
     t3 \in {Cutoff(Now, DefaultHours), Cutoff(Now, 1)}}

InitDiscoveryFaults ==
  /\ Init!1 /\ Init!2 /\ Init!3 /\ Init!4 /\ Init!5 /\ Init!6 /\ Init!7 /\ Init!8
  /\ fn \in [op : {"tree"}, baseDir : FaultyTrees, hoursAgo : HoursArgs]

SpecDiscoveryFaults == InitDiscoveryFaults /\ [][NextDiscovery]_vars

(***************************************************************************)
(* The request bodies of POST /memory on both paths (compound-review.js    *)
(* 226-237, part_000 237-251) as functions of the candidate                *)
(***************************************************************************)
\* candidates as JSON.parse returns them; a candidate may come without tags
Candidates ==
  {c \in [content : {"A", "B"}, type : {"Insight", "Decision"},
          importance : {5, 9}, hasTags : BOOLEAN,
          tags : {<<>>, <<"x">>, <<"x", "y">>}] : c.hasTags \/ c.tags = <<>>}

\* variant: the provenance tags are put in front of the candidate's tags
storeMemoryBodyTagsFirst(memory, sessionPath, now) ==
  [sent |-> TRUE, content |-> memory.content, type |-> memory.type,
   importance |-> memory.importance,
   tags |-> <<"auto-extracted", "compound-review">> \o memory.tags,
   metadata |-> [source |-> "compound-review", session_file |-> sessionPath,
                 extracted_at |-> now]]

\* storeMemory lines 226-237; memory.tags || [] stands for missing tags
storeMemoryBody(memory, sessionPath, now) ==
  [sent |-> TRUE, content |-> memory.content, type |-> memory.type,
   importance |-> memory.importance,
   tags |-> (IF memory.hasTags THEN memory.tags ELSE <<>>)
              \o <<"auto-extracted", "compound-review">>,
   metadata |-> [source |-> "compound-review", session_file |-> sessionPath,
                 extracted_at |-> now]]

\* storeExtractedMemories lines 237-251: the spread of missing tags throws
\* before the request is made; JSON.stringify leaves out session_file when
\* the session manager has no file for the session (sessionFile undefined)
storeExtractedBody(memory, sessionId, sessionFile, cwd, now) ==
  IF ~memory.hasTags THEN [sent |-> FALSE]
  ELSE [sent |-> TRUE, content |-> memory.content, type |-> memory.type,
        importance |-> memory.importance,
        tags |-> memory.tags \o <<"auto-extracted">>,
        metadata |->
          IF sessionFile.defined
            THEN [source |-> "session-extraction", session_id |-> sessionId,
                  session_file |-> sessionFile.path, cwd |-> cwd,
                  extracted_at |-> now]
            ELSE [source |-> "session-extraction", session_id |-> sessionId,
                  cwd |-> cwd, extracted_at |-> now]]

InitBody ==
  /\ Init!1 /\ Init!2 /\ Init!3 /\ Init!4 /\ Init!5 /\ Init!6 /\ Init!7 /\ Init!8
  /\ fn \in [op : {"candidate"}, memory : Candidates, sessionPath : Paths,
              sessionFile : [defined : BOOLEAN, path : {PathA}]]

\* the same candidate given to the store stage of either path
BuildBodies ==
  /\ fn.op = "candidate"
  /\ fn' = [op |-> "bodies", memory |-> fn.memory, sessionPath |-> fn.sessionPath,
            sessionFile |-> fn.sessionFile,
            batch |-> storeMemoryBody(fn.memory, fn.sessionPath, "now"),
            live |-> storeExtractedBody(fn.memory, "id", fn.sessionFile, "cwd",
                                        "now")]
  /\ UNCHANGED <<batchPart, live>>

NextBody == BuildBodies

SpecBody == InitBody /\ [][NextBody]_vars

(***************************************************************************)
(* Properties                                                              *)
(***************************************************************************)
Last(s) == s[Len(s)]
PastFilter(r) ==
  /\ run[r].pc \in {"session", "extract", "store", "mark", "summary", "done"}
  /\ run[r].stderr = "none"

\* C1: a transcript that a finished non-dry-run batch run took through the
\* store stage is a line of the ledger; every run started after that run
\* finished drops it from its to-process list and makes no extraction call
\* and no store call for it, so it has had one store stage only.
IdempotentAcrossRuns ==
  /\ carriedDone \subseteq getProcessedSessions(ledger)
  /\ \A p \in carriedDone : storeStages[p] = 1
  /\ \A r \in Runs :
       /\ run[r].carriedAtStart \cap Range(run[r].toProcess) = {}
       /\ run[r].carriedAtStart \cap (run[r].extracted \cup run[r].posted) = {}

\* a later non-dry run has found an already stored transcript again, has
\* filtered it out and has ended
IdempotentWitness ==
  \E r \in Runs :
    /\ run[r].pc = "done"
    /\ ~run[r].dryRun
    /\ run[r].exitCode = 0
    /\ run[r].carriedAtStart \cap Range(run[r].sessions) # {}

\* C2: a dry run sends no POST /memory and leaves the ledger as it was when
\* the run started, whatever the extractions returned.
DryRunLeavesNoTrace ==
  \A r \in Runs :
    (run[r].dryRun /\ run[r].pc # "idle") =>
      /\ ledger = run[r].ledgerAtStart
      /\ run[r].posted = {}
      /\ run[r].posts = <<>>
      /\ run[r].stored = 0 /\ run[r].totalStored = 0

\* a dry run has ended after an extraction with memories and one without
DryRunWitness ==
  \E r \in Runs :
    /\ run[r].dryRun
    /\ run[r].pc = "done"
    /\ run[r].totalMemories > 0
    /\ "skipped-empty-extraction" \in Range(run[r].outcomes)
    /\ "processed" \in Range(run[r].outcomes)

\* what the specification calls a response that holds a JSON array: after
\* the fence is stripped, an array substring is found and it parses
HoldsJsonArray(text) ==
  LET m == MatchArray(Unfence(text))
      v == JsonParse(m.text)
  IN m.found /\ v.ok /\ v.kind = "a"

\* C3: for every raw response that cannot be parsed into a JSON array, the
\* extractor of the batch path and the extractor of the live path return an
\* empty memory list and neither raises.
UnparseableGivesEmpty ==
  fn.op = "parsed" =>
    /\ ~fn.batch.threw
    /\ ~fn.live.threw
    /\ ~HoldsJsonArray(fn.text) =>
         (fn.batch.memories = <<>> /\ fn.live.memories = <<>>)

StageAsClaimed(memories, posts, stored, failed) ==
  /\ Len(posts) = Len(memories)
  /\ \A i \in 1..Len(posts) : posts[i].i = i
  /\ stored = Cardinality({i \in 1..Len(posts) : posts[i].ok})
  /\ failed = Cardinality({i \in 1..Len(posts) : ~posts[i].ok})
  /\ stored + failed = Len(memories)

\* C5: when a store stage over n memories ends, on the batch path and on
\* the live path, every memory was sent once in list order, the stored
\* count is the number of accepted requests, the failed count the number of
\* failed requests, and they add up to n.
StoreStageCounts ==
  /\ \A r \in Runs :
       (run[r].pc = "mark" /\ run[r].result = "stored") =>
         StageAsClaimed(run[r].memories, run[r].posts, run[r].stored, run[r].failed)
  /\ live.pc = "notify" =>
       StageAsClaimed(live.memories, live.posts, live.stored, live.failed)

\* C6 as stated: no transcript path gets a second store stage, overlapping
\* runs included.
StoredAtMostOnce ==
  \A p \in Paths : storeStages[p] <= 1

\* C6: as long as the batch runs execute one after the other, no transcript
\* path gets a second store stage.
StoredAtMostOncePerSequentialRuns ==
  ~overlapped => \A p \in Paths : storeStages[p] <= 1

\* the second of two runs that did not overlap discovered a stored
\* transcript again and ended
StoredAtMostOnceWitness ==
  /\ ~overlapped
  /\ started = 2
  /\ \E r \in Runs :
       /\ run[r].pc = "done"
       /\ run[r].carriedAtStart \cap Range(run[r].sessions) # {}
       /\ \A p \in run[r].carriedAtStart : storeStages[p] = 1

\* the session a batch run looked at last was skipped by the turn gate
BatchSkippedShort(r) ==
  /\ run[r].pc \in {"session", "summary", "done"}
  /\ run[r].outcomes # <<>>
  /\ Last(run[r].outcomes) = "skipped-too-short"

\* C7 as stated: each path skips a session exactly when its user-turn count
\* is below the configured minimum AUTOMEM_MIN_TURNS (default 3).
TurnGateConfigured ==
  /\ \A r \in Runs :
       /\ BatchSkippedShort(r) => run[r].turnCount < AUTOMEM_MIN_TURNS(run[r].env)
       /\ run[r].pc = "extract" => run[r].turnCount >= AUTOMEM_MIN_TURNS(run[r].env)
  /\ live.outcome = "skipped-too-short" => live.turnCount < AUTOMEM_MIN_TURNS(live.env)
  /\ live.pc = "extract" => live.turnCount >= AUTOMEM_MIN_TURNS(live.env)

\* C7: the batch path skips a session exactly when it has fewer than 3 user
\* turns, whatever AUTOMEM_MIN_TURNS is set to; the live path skips exactly
\* when the count is below the configured AUTOMEM_MIN_TURNS (default 3),
\* and with a count at or above it goes on to the model-credential check
\* and, with a credential, to extraction.
TurnGate ==
  /\ \A r \in Runs :
       /\ BatchSkippedShort(r) => run[r].turnCount < BatchMinTurns
       /\ run[r].pc = "extract" => run[r].turnCount >= BatchMinTurns
  /\ live.outcome = "skipped-too-short" => live.turnCount < AUTOMEM_MIN_TURNS(live.env)
  /\ live.outcome = "skipped-no-key" =>
       (live.turnCount >= AUTOMEM_MIN_TURNS(live.env) /\ ~live.env.GEMINI_API_KEY)
  /\ live.pc = "extract" =>
       (live.turnCount >= AUTOMEM_MIN_TURNS(live.env) /\ live.env.GEMINI_API_KEY)

\* a batch run configured with a minimum of 2 skipped a session of 2 turns
TurnGateWitness ==
  \E r \in Runs :
    /\ BatchSkippedShort(r)
    /\ AUTOMEM_MIN_TURNS(run[r].env) = 2
    /\ run[r].turnCount = 2

\* out is the first min(Len(text), EntryCap) characters of text
IsCutPrefix(out, text) ==
  /\ Len(out) = Min(Len(text), EntryCap)
  /\ \A i \in 1..Len(out) : out[i] = text[i]

\* the line of the live rendering: the upper-case role, ": ", the body
LiveBody(rendered, role) ==
  SubSeq(rendered, Len(Upper(role)) + 3, Len(rendered))

\* an entry whose text is forwarded: a user or assistant message with a
\* text that is not blank
ForwardedEntry ==
  /\ fn.op = "forwarded"
  /\ fn.line.role \in {"user", "assistant"}
  /\ TrimNonEmpty(ContentText(fn.line))

\* C8 as stated: on both paths the text of an entry, user or assistant, is
\* forwarded as exactly its first min(length, 2000) characters.
EntryTextCutOnBothPaths ==
  ForwardedEntry =>
    /\ Len(fn.batch.entries) = 1
    /\ IsCutPrefix(fn.batch.entries[1].text, ContentText(fn.line))
    /\ IsCutPrefix(LiveBody(fn.live.text, fn.line.role), ContentText(fn.line))

\* C8: the batch path forwards the text of an entry of either role as
\* exactly its first min(length, 2000) characters; the live path forwards a
\* user text whole and an assistant text longer than 2000 characters as its
\* first 2000 characters followed by "...".
EntryTextCut ==
  ForwardedEntry =>
    LET text == ContentText(fn.line)
        body == LiveBody(fn.live.text, fn.line.role)
    IN /\ Len(fn.batch.entries) = 1
       /\ IsCutPrefix(fn.batch.entries[1].text, text)
       /\ fn.line.role = "user" => body = text
       /\ (fn.line.role = "assistant" /\ Len(text) <= EntryCap) => body = text
       /\ (fn.line.role = "assistant" /\ Len(text) > EntryCap) =>
            /\ Len(body) = EntryCap + 3
            /\ IsCutPrefix(SubSeq(body, 1, EntryCap), text)
            /\ SubSeq(body, EntryCap + 1, EntryCap + 3) = <<".", ".", ".">>

\* a user text longer than the cap went through both paths
EntryTextCutWitness ==
  /\ ForwardedEntry
  /\ fn.line.role = "user"
  /\ Len(ContentText(fn.line)) > EntryCap
  /\ Len(fn.batch.entries[1].text) = EntryCap
  /\ Len(fn.live.text) > EntryCap

\* a run that was given --session and got past the start-up checks
NamedRun(r) ==
  /\ run[r].specificSession # NoSession
  /\ run[r].sessions # <<>>
  /\ run[r].pc # "filter"
  /\ run[r].stderr = "none"

\* C9 as stated: with --session the run takes the named transcript alone
\* and processes it whether or not the ledger lists it.
NamedSessionBypassesLedger ==
  \A r \in Runs :
    NamedRun(r) => run[r].toProcess = <<run[r].specificSession>>

\* C9: with --session the run skips discovery and selects the named
\* transcript alone, but the ledger filter still applies: a named
\* transcript that the ledger lists is not processed.
NamedSessionSkipsDiscoveryOnly ==
  \A r \in Runs :
    NamedRun(r) =>
      /\ run[r].sessions = <<run[r].specificSession>>
      /\ run[r].toProcess =
           IF run[r].specificSession \in getProcessedSessions(run[r].ledgerAtStart)
           THEN <<>> ELSE <<run[r].specificSession>>

\* a run was given a transcript that the ledger lists and ended with
\* nothing to process
NamedSessionWitness ==
  \E r \in Runs :
    /\ NamedRun(r)
    /\ run[r].specificSession \in getProcessedSessions(run[r].ledgerAtStart)
    /\ run[r].pc = "done"
    /\ run[r].exitCode = 0
    /\ run[r].outcomes = <<>>

\* C10: every memory that reaches the store stage, on either path, has a
\* content and a numeric importance: elements without them are dropped
\* before.
OnlyValidatedMemoriesStored ==
  /\ \A r \in Runs :
       run[r].pc = "store" =>
         \A i \in 1..Len(run[r].memories) :
           HasContent(run[r].memories[i]) /\ ImportanceIsNumber(run[r].memories[i])
  /\ live.pc = "store" =>
       \A i \in 1..Len(live.memories) :
         HasContent(live.memories[i]) /\ ImportanceIsNumber(live.memories[i])

\* C12: a run whose health check failed has ended there with exit code 1:
\* it scanned no directory, selected no session, parsed, extracted and
\* stored nothing, and the ledger is as it was when the run started.
UnhealthyStoreAborts ==
  \A r \in Runs :
    run[r].stderr = "unhealthy" =>
      /\ run[r].pc = "done"
      /\ run[r].exitCode = 1
      /\ run[r].sessions = <<>>
      /\ run[r].toProcess = <<>>
      /\ run[r].outcomes = <<>>
      /\ run[r].extracted = {} /\ run[r].posted = {}
      /\ ledger = run[r].ledgerAtStart

\* a run met an unhealthy store while the ledger already had a line
UnhealthyStoreWitness ==
  \E r \in Runs :
    /\ run[r].stderr = "unhealthy"
    /\ getProcessedSessions(ledger) # {}

\* the causes for which the script calls process.exit(1)
AbortCauses == {"no-token", "no-pi", "unhealthy", "fatal"}

\* C13 as stated: the exit code is non-zero exactly when the credential is
\* missing or the store is unreachable or unhealthy.
ExitCodeAsStated ==
  \A r \in Runs :
    run[r].pc = "done" =>
      (run[r].exitCode # 0 <=> run[r].stderr \in {"no-token", "unhealthy"})

\* C13: a run that has ended has exit code 1 exactly when the credential
\* was missing, the pi command was not found, the store was unreachable or
\* unhealthy, or an exception escaped main (the ledger file could not be
\* read); in every other case, with any number of sessions in the error
\* outcome, it has exit code 0.
ExitCode ==
  \A r \in Runs :
    run[r].pc = "done" =>
      /\ run[r].exitCode \in {0, 1}
      /\ run[r].exitCode = 1 <=> run[r].stderr \in AbortCauses
      /\ run[r].stderr = "no-token" <=> ~run[r].env.AUTOMEM_TOKEN
      /\ "error" \in Range(run[r].outcomes) => run[r].exitCode = 0

\* a run in which every session ended in the error outcome exited with 0
ExitCodeWitness ==
  \E r \in Runs :
    /\ run[r].pc = "done"
    /\ run[r].exitCode = 0
    /\ run[r].outcomes = <<"error", "error">>

\* C11: for every raw response text the batch extractor and the live
\* extractor return the same sequence of memories.
ExtractorsAgree ==
  fn.op = "parsed" => fn.batch.memories = fn.live.memories

\* run r takes a step from the given position
StepsFrom(r, pc) == run[r].pc = pc /\ run'[r] # run[r]

\* C14: when a non-dry run leaves a store stage in which store calls
\* failed, the session's path is appended to the ledger and its outcome is
\* "processed", the failures having been counted only; and the filter of
\* every run drops the paths the ledger lists.
StoreFailuresStillMark ==
  [][\A r \in Runs :
       /\ (StepsFrom(r, "mark") /\ run[r].result = "stored" /\ run[r].failed > 0) =>
            /\ CurrentPath(r) \in getProcessedSessions(ledger')
            /\ ledger' # ledger
            /\ Last(run'[r].outcomes) = "processed"
            /\ run'[r].totalStored = run[r].totalStored + run[r].stored
            /\ run[r].stored + run[r].failed = Len(run[r].memories)
       /\ StepsFrom(r, "filter") =>
            Range(run'[r].toProcess) \cap getProcessedSessions(ledger) = {}]_vars

\* a non-dry run has marked a session all of whose store calls failed
StoreFailuresWitness ==
  \E r \in Runs :
    /\ ~run[r].dryRun
    /\ run[r].outcomes = <<"processed">>
    /\ run[r].totalMemories > 0
    /\ run[r].totalStored = 0
    /\ run[r].toProcess[1] \in getProcessedSessions(ledger)

\* C15: with runs terminated at any point, the ledger changes only by the
\* append of the path of a session whose extraction has returned and all of
\* whose memories have been through their store call, and the filter of
\* every run keeps each selected session that the ledger does not list, so
\* a session that was not yet marked is processed again.
CrashConsistentLedger ==
  [][/\ ledger' # ledger =>
          \E r \in Runs :
            /\ StepsFrom(r, "mark")
            /\ ~run[r].dryRun
            /\ CurrentPath(r) \in run[r].extracted
            /\ run[r].result \in {"empty", "stored"}
            /\ run[r].result = "stored" => run[r].mi = Len(run[r].memories) + 1
            /\ run[r].stored + run[r].failed = Len(run[r].memories)
            /\ getProcessedSessions(ledger') =
                 getProcessedSessions(ledger) \cup {CurrentPath(r)}
     /\ \A r \in Runs :
          (StepsFrom(r, "filter") /\ run'[r].stderr = "none") =>
            \A p \in Range(run[r].sessions) :
              p \notin getProcessedSessions(ledger) => p \in Range(run'[r].toProcess)]_vars

\* a session whose store stage was cut off by the termination of its run is
\* in the store stage of the next run, still unmarked
CrashConsistentWitness ==
  \E r \in Runs :
    /\ run[r].pc = "store"
    /\ CurrentPath(r) \in run[r].errorAtStart
    /\ CurrentPath(r) \notin getProcessedSessions(ledger)
    /\ storeStages[CurrentPath(r)] = 2

\* how a session_shutdown handler that returned normally can have ended
HandlerCompletions ==
  {"not-registered", "skipped-too-short", "skipped-no-key",
   "skipped-empty-extraction", "processed", "error-caught"}

\* C16: the session_shutdown handler never lets an error through to the
\* host: whatever failed while reading the entries, extracting, storing or
\* notifying, a handler that has ended has returned normally.
ShutdownHookNeverThrows ==
  /\ live.outcome # "rejected"
  /\ live.pc = "ended" => live.outcome \in HandlerCompletions
  /\ live.pc # "ended" => live.outcome = "none"

\* the handler has ended after the model call was made and a later step
\* threw: the error was caught at the boundary
ShutdownHookWitness ==
  /\ live.pc = "ended"
  /\ live.outcome = "error-caught"
  /\ live.modelCalls = 1
  /\ live.failed > 0

\* the session that run r handled last
PreviousPath(r) == run[r].toProcess[run[r].idx - 1]

\* the messages that only a timeout of the pi call gives
TimeoutErrors == {"Extraction timed out after 90s", "spawnSync ETIMEDOUT"}

IsPrefix(s, t) == Len(s) <= Len(t) /\ SubSeq(t, 1, Len(s)) = s

\* C18: no step of a batch run removes or rewrites ledger content: the
\* content before a step is a prefix of the content after it and the file
\* does not disappear; and a run that finds no ledger file takes it as the
\* empty set, without an error: it keeps every selected session.
LedgerOnlyGrows ==
  [][/\ IsPrefix(ledger.content, ledger'.content)
     /\ ledger.exists => ledger'.exists
     /\ \A r \in Runs :
          (StepsFrom(r, "filter") /\ ~ledger.exists) =>
            /\ run'[r].stderr = "none"
            /\ run'[r].toProcess = run[r].sessions]_vars

\* the ledger has grown twice
LedgerOnlyGrowsWitness ==
  /\ ledger.exists
  /\ Cardinality(getProcessedSessions(ledger)) = 2

\* the lines of the ledger file in file order
LedgerLines(file) ==
  SelectSeq(SplitOn(file.content, NL, <<>>), LAMBDA l : l # <<>>)

\* C19: the step that takes a non-dry run out of a session's store stage
\* adds one line to the ledger, the session's path, and counts as stored
\* the accepted store calls; and with runs that execute one after another
\* no path is on two lines of the ledger.
OneLedgerLinePerSession ==
  [][/\ \A r \in Runs :
          (StepsFrom(r, "mark") /\ run[r].result = "stored") =>
            /\ LedgerLines(ledger') = Append(LedgerLines(ledger), CurrentPath(r))
            /\ run'[r].totalStored = run[r].totalStored
                 + Cardinality({i \in 1..Len(run[r].posts) : run[r].posts[i].ok})
            /\ run'[r].totalMemories = run[r].totalMemories + Len(run[r].memories)
     /\ \A i, j \in 1..Len(LedgerLines(ledger')) :
          LedgerLines(ledger')[i] = LedgerLines(ledger')[j] => i = j]_vars

\* the transcript with four user turns gave two memories, both stored, and
\* the ledger has gained the one line of its path
OneLedgerLineWitness ==
  \E r \in Runs :
    /\ ~run[r].dryRun
    /\ run[r].turnCount = 4
    /\ run[r].outcomes = <<"processed">>
    /\ run[r].totalMemories = 2
    /\ run[r].totalStored = 2
    /\ LedgerLines(ledger) =
         Append(LedgerLines(run[r].ledgerAtStart), run[r].toProcess[1])
    /\ LedgerLines(run[r].ledgerAtStart) # <<>>

RECURSIVE TranscriptsUnder(_, _)
\* the transcript files below a directory, outside the reserved directories,
\* the directories that cannot be read and the entries whose stat fails
TranscriptsUnder(dir, dirPath) ==
  IF ~dir.readable THEN {}
  ELSE UNION
    {LET e == dir.entries[i] IN
       IF e.isDirectory
         THEN IF e.name = ReservedName THEN {}
              ELSE TranscriptsUnder(e, Append(dirPath, e.name))
       ELSE IF EndsWithJsonl(e.name) /\ e.statOk
         THEN {[path |-> Append(dirPath, e.name), mtime |-> e.mtimeMs]}
       ELSE {} :
     i \in 1..Len(dir.entries)}

\* the sessions found, as a set of path and modification time
FoundSet == {[path |-> fn.sessions[i].path, mtime |-> fn.sessions[i].mtime] :
               i \in 1..Len(fn.sessions)}

\* each file once, the most recently modified first
MostRecentFirst ==
  /\ Cardinality(FoundSet) = Len(fn.sessions)
  /\ \A i \in 1..Len(fn.sessions) - 1 : fn.sessions[i].mtime >= fn.sessions[i + 1].mtime

RECURSIVE TranscriptsBeforeFailure(_, _)
TranscriptsBeforeFailure(dir, dirPath) ==
  IF ~dir.readable THEN {}
  ELSE LET failing == {i \in 1..Len(dir.entries) :
                         /\ ~dir.entries[i].isDirectory
                         /\ EndsWithJsonl(dir.entries[i].name)
                         /\ ~dir.entries[i].statOk}
           reached == {i \in 1..Len(dir.entries) : \A j \in failing : i < j}
       IN UNION
            {LET e == dir.entries[i] IN
               IF e.isDirectory
                 THEN IF e.name = ReservedName THEN {}
                      ELSE TranscriptsBeforeFailure(e, Append(dirPath, e.name))
               ELSE IF EndsWithJsonl(e.name)
                 THEN {[path |-> Append(dirPath, e.name), mtime |-> e.mtimeMs]}
               ELSE {} :
             i \in reached}

\* C21 as stated: when reading a directory or an entry fails, discovery
\* still returns every eligible transcript outside the failing subtree,
\* the siblings of the failing entry included.
DiscoverySurvivesFailures ==
  fn.op = "found" =>
    {f \in TranscriptsUnder(fn.baseDir, <<>>) :
       f.mtime >= Cutoff(Now, fn.hoursAgo)} \subseteq FoundSet

\* what discovery returns when reads fail: in each directory, the eligible
\* transcripts listed before the first entry whose stat throws
DiscoveryUpToFailure ==
  fn.op = "found" =>
    FoundSet = {f \in TranscriptsBeforeFailure(fn.baseDir, <<>>) :
                  f.mtime >= Cutoff(Now, fn.hoursAgo)}

\* an entry whose stat throws stood before an eligible transcript of the
\* same directory, and that transcript was not returned
SiblingLost ==
  /\ fn.op = "found"
  /\ \E f \in TranscriptsUnder(fn.baseDir, <<>>) :
       /\ f.mtime >= Cutoff(Now, fn.hoursAgo)
       /\ f \notin FoundSet

\* C22: ledger membership is an exact match of the path string: a session
\* named under a spelling that is not in the ledger is kept for processing,
\* whether or not the same file is in the ledger under another spelling.
LedgerMatchesPathString ==
  \A r \in Runs :
    (/\ PastFilter(r)
     /\ run[r].specificSession = PathAlias
     /\ PathAlias \notin getProcessedSessions(run[r].ledgerAtStart))
    => run[r].toProcess = <<PathAlias>>

\* the file was marked under PathA by an earlier run, and the run on its
\* other spelling extracted and stored it once more
StoredAgainUnderAlias ==
  \E r \in Runs :
    /\ run[r].specificSession = PathAlias
    /\ PathA \in getProcessedSessions(run[r].ledgerAtStart)
    /\ storeStages[PathA] = 1
    /\ storeStages[PathAlias] = 1
    /\ run[r].outcomes = <<"processed">>
    /\ run[r].totalStored > 0
    /\ PathAlias \in getProcessedSessions(ledger)

\* the number of sessions of run r that ended in the given outcome
OutcomeCount(r, outcome) ==
  Cardinality({i \in 1..Len(run[r].outcomes) : run[r].outcomes[i] = outcome})

\* C23 as stated: the summary reports as sessions processed the number of
\* sessions that ended in the processed outcome, as memories extracted the
\* candidates returned for them, and as memories stored at most that many.
SummaryCountsProcessed ==
  \A r \in Runs :
    run[r].summary.printed =>
      /\ run[r].summary.sessionsProcessed = OutcomeCount(r, "processed")
      /\ run[r].summary.memoriesExtracted = run[r].totalMemories
      /\ run[r].summary.memoriesStored <= run[r].summary.memoriesExtracted

\* what the summary reports: the length of the to-process list, whatever
\* the outcomes, and totals with stored never above extracted
SummaryCountsListed ==
  \A r \in Runs :
    run[r].summary.printed =>
      /\ run[r].summary.sessionsProcessed = Len(run[r].outcomes)
      /\ run[r].summary.sessionsProcessed = Len(run[r].toProcess)
      /\ run[r].summary.memoriesExtracted = run[r].totalMemories
      /\ run[r].summary.memoriesStored <= run[r].summary.memoriesExtracted
      /\ run[r].summary.storedPrinted = ~run[r].dryRun

\* a summary that reports one session processed after a run whose only
\* session was skipped as too short
SummaryOverReports ==
  \E r \in Runs :
    /\ run[r].summary.printed
    /\ run[r].outcomes = <<"skipped-too-short">>
    /\ run[r].summary.sessionsProcessed = 1

\* the candidate's content, type and importance are in the body as they are
PassedThrough(body, memory) ==
  /\ body.content = memory.content
  /\ body.type = memory.type
  /\ body.importance = memory.importance

\* C24 as stated: every submitted memory carries the candidate's tags
\* followed by the provenance tags, and metadata naming the trigger source,
\* the originating session file and the extraction time.
BodyNamesSessionFile ==
  fn.op = "bodies" =>
    /\ PassedThrough(fn.batch, fn.memory)
    /\ fn.batch.metadata.session_file = fn.sessionPath
    /\ fn.live.sent =>
         /\ PassedThrough(fn.live, fn.memory)
         /\ "session_file" \in DOMAIN fn.live.metadata
         /\ fn.live.metadata.session_file = fn.sessionFile.path

\* C24: every submitted memory carries the candidate's tags followed by
\* "auto-extracted" (and "compound-review" on the batch path), the source
\* and the extraction time in its metadata, and content, type and
\* importance unchanged; the session file is named on the batch path
\* always and on the live path exactly when the host has one.
BodyCarriesProvenance ==
  fn.op = "bodies" =>
    /\ PassedThrough(fn.batch, fn.memory)
    /\ fn.batch.tags = (IF fn.memory.hasTags THEN fn.memory.tags ELSE <<>>)
                         \o <<"auto-extracted", "compound-review">>
    /\ fn.batch.metadata = [source |-> "compound-review",
                            session_file |-> fn.sessionPath,
                            extracted_at |-> "now"]
    /\ fn.live.sent =>
         /\ PassedThrough(fn.live, fn.memory)
         /\ fn.live.tags = fn.memory.tags \o <<"auto-extracted">>
         /\ fn.live.metadata.source = "session-extraction"
         /\ fn.live.metadata.extracted_at = "now"
         /\ ("session_file" \in DOMAIN fn.live.metadata) = fn.sessionFile.defined
         /\ fn.sessionFile.defined =>
              fn.live.metadata.session_file = fn.sessionFile.path

\* a candidate with two tags was submitted on both paths, on the live path
\* from a session that has a file
BodyWitness ==
  /\ fn.op = "bodies"
  /\ fn.live.sent
  /\ fn.sessionFile.defined
  /\ fn.batch.tags = <<"x", "y", "auto-extracted", "compound-review">>
  /\ fn.live.tags = <<"x", "y", "auto-extracted">>

\* C25 as stated: execute never throws, returns isError with a text on a
\* non-2xx response or a rejected call, and no isError on a 2xx response.
ToolResultByStatus ==
  fn.op = "tool" =>
    /\ ~fn.result.thrown
    /\ fn.http \in {"non2xx", "rejected"} =>
         fn.result.isError /\ fn.result.text # ""
    /\ fn.http = "ok" => ~fn.result.isError

\* a 2xx body that execute can read: JSON, and for automem_recall with a
\* results array
BodyReadable(name, body) ==
  /\ body # "not-json"
  /\ name = "automem_recall" => body # "no-results-field"

\* C25: execute never throws; it returns isError with a text on a non-2xx
\* response, on a rejected call, and on a 2xx response whose body it
\* cannot read; on a 2xx response with a readable body it returns a result
\* without isError.
ToolResultByStatusAndBody ==
  fn.op = "tool" =>
    /\ ~fn.result.thrown
    /\ fn.http \in {"non2xx", "rejected"} =>
         fn.result.isError /\ fn.result.text # ""
    /\ fn.http = "ok" =>
         fn.result.isError = ~BodyReadable(fn.name, fn.body)
    /\ fn.result.isError => fn.result.text # ""

\* automem_recall was called and the fetch was rejected: the result says
\* so and carries isError
ToolErrorWitness ==
  /\ fn.op = "tool"
  /\ fn.name = "automem_recall"
  /\ fn.http = "rejected"
  /\ fn.result.isError
  /\ fn.result.text = "Error connecting to AutoMem"

\* C26: the load registers the three tools exactly when AUTOMEM_TOKEN is
\* set, and one session_start handler either way; without the token there
\* is no shutdown hook and the session_start handler emits one warning and
\* makes no request.
ToolsIffToken ==
  /\ live.pc = "loaded" =>
       /\ live.tools = (IF live.env.AUTOMEM_TOKEN THEN ToolNames ELSE {})
       /\ live.startHandlers = 1
       /\ ~live.env.AUTOMEM_TOKEN => live.shutdownHandlers = 0
  /\ (fn.op = "session_start" /\ ~fn.token) =>
       /\ fn.notifications = <<"warning">>
       /\ fn.requests = 0

\* loaded without a token: no tool, and the session_start handler has run
\* and warned
NoTokenWitness ==
  /\ live.pc = "loaded"
  /\ ~live.env.AUTOMEM_TOKEN
  /\ live.tools = {}
  /\ fn.op = "session_start"
  /\ fn.notifications = <<"warning">>

\* C27 as stated: with a token the session_start handler emits one info
\* notification when the health request gives a 2xx response, and none,
\* throwing nothing, when it is rejected or gives another status.
StartNotifiesOn2xx ==
  (fn.op = "session_start" /\ fn.token) =>
    /\ ~fn.threw
    /\ fn.http = "ok" => fn.notifications = <<"info">>
    /\ fn.http # "ok" => fn.notifications = <<>>

\* C27: with a token the session_start handler makes one health request
\* and throws nothing; it emits one info notification when the response is
\* 2xx and its body is JSON, and no notification otherwise.
StartNotifiesOnHealthy ==
  (fn.op = "session_start" /\ fn.token) =>
    /\ ~fn.threw
    /\ fn.requests = 1
    /\ fn.notifications =
         (IF fn.http = "ok" /\ fn.body # "not-json" THEN <<"info">> ELSE <<>>)

\* the health request was rejected and the handler stayed silent
StartSilentWitness ==
  /\ fn.op = "session_start"
  /\ fn.token
  /\ fn.http = "rejected"
  /\ fn.notifications = <<>>
  /\ ~fn.threw

\* the hook is not there, and the end of the session did nothing
HookAbsent ==
  live.shutdownHandlers = 0 =>
    /\ live.modelCalls = 0
    /\ live.posts = <<>>
    /\ live.notifications = <<>>

\* C28 as stated: with AUTOMEM_AUTO_EXTRACT "false" no session_shutdown
\* handler is registered and the end of a session has no effect; with any
\* other value, or unset, one handler is registered.
ShutdownHookBySetting ==
  live.pc # "unloaded" =>
    /\ HookAbsent
    /\ live.shutdownHandlers =
         (IF live.env.AUTOMEM_AUTO_EXTRACT = "false" THEN 0 ELSE 1)

\* C28: with AUTOMEM_AUTO_EXTRACT "false", or without AUTOMEM_TOKEN, no
\* session_shutdown handler is registered and the end of a session has no
\* effect; with a token and any other value, or unset, one is registered.
ShutdownHookBySettingAndToken ==
  live.pc # "unloaded" =>
    /\ HookAbsent
    /\ live.shutdownHandlers =
         (IF live.env.AUTOMEM_AUTO_EXTRACT = "false" \/ ~live.env.AUTOMEM_TOKEN
            THEN 0 ELSE 1)

\* a session ended under AUTOMEM_AUTO_EXTRACT=false with a token and a model
\* key, and nothing was called
HookAbsentWitness ==
  /\ live.pc = "ended"
  /\ live.outcome = "not-registered"
  /\ live.env.AUTOMEM_AUTO_EXTRACT = "false"
  /\ live.env.AUTOMEM_TOKEN
  /\ live.env.GEMINI_API_KEY
  /\ live.modelCalls = 0

\* the outcomes in which the loop of main leaves a session
TerminalOutcomes ==
  {"skipped-too-short", "skipped-empty-extraction", "processed", "error"}

\* the sessions of run r before the current one have one outcome each, and
\* a run that has left the loop has one for every session of its list
OneOutcomeEach(r) ==
  /\ \A i \in 1..Len(run[r].outcomes) : run[r].outcomes[i] \in TerminalOutcomes
  /\ InSession(r) => Len(run[r].outcomes) = run[r].idx - 1
  /\ (run[r].pc \in {"summary", "done"} /\ run[r].toProcess # <<>>) =>
       Len(run[r].outcomes) = Len(run[r].toProcess)
  /\ (run[r].pc = "done" /\ run[r].toProcess # <<>>) =>
       run[r].summary.printed /\ run[r].exitCode = 0

\* C29: when every external call comes back, a batch run that has started
\* terminates, and every session of its to-process list ends in exactly
\* one of the four terminal outcomes, the sessions after one that ended in
\* error included.
BatchRunTerminates ==
  /\ \A r \in Runs : Active(r) ~> run[r].pc = "done"
  /\ [](\A r \in Runs : OneOutcomeEach(r))

\* a finished run whose first session ended in error and whose second
\* session was processed
ErrorThenProcessed ==
  \E r \in Runs :
    /\ run[r].pc = "done"
    /\ run[r].outcomes = <<"error", "processed">>
    /\ run[r].summary.printed

\* run r is at a session B of its list: every session A before B has its
\* outcome, and its ledger line if it was processed; no store call has been
\* made for a session after B, and none for B before its transcript was
\* read and its memories extracted; B is marked only after the store loop
\* has gone through all its memories.
OneSessionAtATime(r) ==
  InSession(r) =>
    /\ Len(run[r].outcomes) = run[r].idx - 1
    /\ \A i \in 1..(run[r].idx - 1) :
         (run[r].outcomes[i] \in {"processed", "skipped-empty-extraction"}
            /\ ~run[r].dryRun)
         => run[r].toProcess[i] \in getProcessedSessions(ledger)
    /\ run[r].posted \subseteq {run[r].toProcess[i] : i \in 1..run[r].idx}
    /\ run[r].pc \in {"session", "extract"} =>
         CurrentPath(r) \notin run[r].posted /\ run[r].posts = <<>>
    /\ run[r].pc \in {"session", "extract", "store"} =>
         CurrentPath(r) \notin getProcessedSessions(ledger)
    /\ (run[r].pc = "mark" /\ run[r].result = "stored") =>
         run[r].mi = Len(run[r].memories) + 1

\* C30: the sessions of a run are processed one at a time in the order of
\* the to-process list: a store call is made only in the store loop of the
\* current session, the ledger is appended to only after that loop has
\* ended, and all of this is done for a session before the transcript of
\* the next one is read.
SessionsInOrder ==
  /\ [](\A r \in Runs : OneSessionAtATime(r))
  /\ [][\A r \in Runs :
          /\ (run'[r].posted \ run[r].posted) # {} =>
               /\ run[r].pc = "store"
               /\ run'[r].posted = run[r].posted \cup {CurrentPath(r)}
               /\ ledger' = ledger
          /\ (Active(r) /\ run'[r].idx > run[r].idx /\ run[r].idx > 0) =>
               /\ run'[r].idx = run[r].idx + 1
               /\ run[r].pc \in {"session", "extract", "mark"}]_vars

\* the second session of a run is being stored while the first, processed
\* with two memories stored, is already a line of the ledger
SecondSessionWitness ==
  \E r \in Runs :
    /\ run[r].pc = "store"
    /\ run[r].idx = 2
    /\ run[r].outcomes = <<"processed">>
    /\ run[r].totalStored = 2
    /\ run[r].posts # <<>>
    /\ run[r].toProcess[1] \in getProcessedSessions(ledger)
    /\ CurrentPath(r) \notin getProcessedSessions(ledger)

\* C31: inside a session of a batch run no model call is made when the
\* turn count fails the gate, no store call is made when the extraction
\* returned nothing or raised, and a store call is made only after the
\* extraction of the same session returned a non-empty sequence.
StagesInOrder ==
  \A r \in Runs :
    /\ \A i \in 1..Len(run[r].outcomes) :
         /\ run[r].outcomes[i] = "skipped-too-short" =>
              /\ run[r].toProcess[i] \notin run[r].extracted
              /\ run[r].toProcess[i] \notin run[r].posted
         /\ run[r].outcomes[i] \in {"skipped-empty-extraction", "error"} =>
              run[r].toProcess[i] \notin run[r].posted
    /\ run[r].posted \subseteq run[r].extracted
    /\ run[r].pc = "session" => CurrentPath(r) \notin run[r].extracted
    /\ run[r].pc \in {"extract", "store"} => run[r].turnCount >= BatchMinTurns
    /\ run[r].pc = "store" =>
         /\ run[r].memories # <<>>
         /\ CurrentPath(r) \in run[r].extracted
    /\ run[r].posts # <<>> => run[r].memories # <<>>

\* a finished run that skipped its first session without a model call and
\* extracted and stored its second
StagesWitness ==
  \E r \in Runs :
    /\ run[r].pc = "done"
    /\ run[r].outcomes = <<"skipped-too-short", "processed">>
    /\ run[r].extracted = {run[r].toProcess[2]}
    /\ run[r].posted = {run[r].toProcess[2]}

\* C32: in a run that is no dry run a session whose extraction returned
\* nothing is a line of the ledger, and no run gives the model a session
\* that was in the ledger when it started; a session skipped as too short
\* is not put into the ledger, and a run keeps for parsing every session it
\* discovers that is not in the ledger.
EmptyIsMarkedShortIsNot ==
  \A r \in Runs :
    /\ ~run[r].dryRun =>
         \A i \in 1..Len(run[r].outcomes) :
           /\ run[r].outcomes[i] = "skipped-empty-extraction" =>
                run[r].toProcess[i] \in getProcessedSessions(ledger)
           /\ run[r].outcomes[i] = "skipped-too-short" =>
                (run[r].toProcess[i] \in getProcessedSessions(ledger)
                   <=> run[r].toProcess[i] \in
                         getProcessedSessions(run[r].ledgerAtStart))
    /\ run[r].extracted \cap getProcessedSessions(run[r].ledgerAtStart) = {}
    /\ PastFilter(r) =>
         \A i \in 1..Len(run[r].sessions) :
           run[r].sessions[i] \notin getProcessedSessions(run[r].ledgerAtStart)
             => \E j \in 1..Len(run[r].toProcess) :
                  run[r].toProcess[j] = run[r].sessions[i]

\* the second run has finished: the session whose extraction returned
\* nothing is in the ledger, the one skipped as too short is not
EmptyMarkedShortNotWitness ==
  \E r \in Runs :
    /\ started = 2
    /\ run[r].pc = "done"
    /\ ~run[r].dryRun
    /\ run[r].outcomes = <<"skipped-empty-extraction", "skipped-too-short">>
    /\ run[r].toProcess[1] \in getProcessedSessions(ledger)
    /\ run[r].toProcess[2] \notin getProcessedSessions(ledger)

EntriesOf(entries, role) == {i \in 1..Len(entries) : entries[i].role = role}

\* C34: lines that do not parse raise nothing and change nothing: the
\* result is that of the transcript without them; every entry comes from a
\* message record of role user or assistant with text that is not blank,
\* in the order of the lines.
CorruptLinesAreSkipped ==
  fn.op = "parsed" =>
    /\ fn.batch = fn.cleaned
    /\ LET kept == SelectSeq(fn.lines, BatchContributes)
       IN /\ Len(fn.batch.entries) = Len(kept)
          /\ \A i \in 1..Len(kept) :
               /\ kept[i].json /\ kept[i].type = "message"
               /\ fn.batch.entries[i].role = kept[i].role
               /\ fn.batch.entries[i].role \in {"user", "assistant"}
               /\ fn.batch.entries[i].text = ContentText(kept[i])
               /\ TrimNonEmpty(fn.batch.entries[i].text)

\* a transcript whose second line does not parse gave the two entries
\* around it
CorruptLineWitness ==
  /\ fn.op = "parsed"
  /\ Len(fn.lines) = 3
  /\ ~fn.lines[2].json
  /\ fn.batch.turnCount = 1
  /\ Len(fn.batch.entries) = 2
  /\ fn.batch.entries[2].role = "assistant"

\* the USER blocks of a rendered text: the places where "USER: " stands at
\* the start of the text or after an empty line
UserBlocks(text) ==
  {i \in 1..Len(text) :
     /\ i + 5 <= Len(text)
     /\ SubSeq(text, i, i + 5) = Upper("user") \o <<":", " ">>
     /\ i = 1 \/ (i > 2 /\ SubSeq(text, i - 2, i - 1) = <<NL, NL>>)}

\* C35: turnCount is the number of entries of role user, and so at most
\* the number of entries; on the live path it is the number of USER blocks
\* of the rendered text.
TurnCountIsUserEntries ==
  fn.op = "parsed" =>
    /\ fn.batch.turnCount = Cardinality(EntriesOf(fn.batch.entries, "user"))
    /\ fn.batch.turnCount <= Len(fn.batch.entries)
    /\ fn.live.turnCount = Cardinality(UserBlocks(fn.live.text))

\* two user messages around an assistant message: three entries, two turns
TurnCountWitness ==
  /\ fn.op = "parsed"
  /\ Len(fn.batch.entries) = 3
  /\ fn.batch.turnCount = 2
  /\ fn.live.turnCount = 2
  /\ fn.batch.entries[2].role = "assistant"

\* the candidates of a store loop that have had their iteration, and
\* those of them for which a request was sent
Attempted(rec) == 1..(rec.mi - 1)
Requested(rec) == {rec.posts[j].i : j \in 1..Len(rec.posts)}

\* C36: on the live path a candidate without a tags field is counted as
\* failed and no request is sent for it; the batch path sends it with the
\* provenance tags alone; on both paths the loop goes on to the remaining
\* candidates, so that every candidate has been attempted when it ends.
MissingTagsByPath ==
  /\ live.pc \in {"store", "notify"} =>
       /\ \A i \in Attempted(live) :
            i \in Requested(live) <=> LiveRequestSent(live.memories[i])
       /\ \A i \in Attempted(live) :
            live.memories[i] = "t" => i \notin Requested(live)
       /\ live.stored + live.failed = live.mi - 1
       /\ live.failed >= Cardinality(Attempted(live) \ Requested(live))
       /\ live.pc = "notify" => live.mi = Len(live.memories) + 1
  /\ \A r \in Runs :
       (run[r].pc = "store" \/ (run[r].pc = "mark" /\ run[r].result = "stored")) =>
         /\ \A i \in Attempted(run[r]) :
              run[r].memories[i] = "t" => i \in Requested(run[r])
         /\ run[r].stored + run[r].failed = run[r].mi - 1
         /\ run[r].pc = "mark" => run[r].mi = Len(run[r].memories) + 1
  /\ \A c \in Candidates :
       ~c.hasTags =>
         /\ storeMemoryBody(c, PathA, "now").tags
               = <<"auto-extracted", "compound-review">>
         /\ ~storeExtractedBody(c, "id", [defined |-> TRUE, path |-> PathA],
                                "cwd", "now").sent

\* the hook got a candidate without tags and one with tags: one failed
\* without a request, the other was stored; the batch run got the same two
\* and sent a request for each
MissingTagsWitness ==
  /\ live.pc = "ended"
  /\ live.memories = <<"t", "m">>
  /\ live.posts = <<[i |-> 2, ok |-> TRUE]>>
  /\ live.stored = 1
  /\ live.failed = 1
  /\ \E r \in Runs :
       /\ run[r].pc = "mark"
       /\ run[r].memories = <<"t", "m">>
       /\ Requested(run[r]) = {1, 2}
       /\ run[r].stored = 2

\* the notifications of the given level that the handler has emitted
Emitted(level) ==
  {i \in 1..Len(live.notifications) : live.notifications[i].level = level}

\* C37: the shutdown handler ends without notification, model call or
\* store call when the turn count is below the minimum or the model
\* credential is missing; otherwise the extracting notification comes
\* first, before the one model call; an empty extraction is followed by no
\* store call; and a handler that completes the store stage has emitted a
\* success notification exactly when stored > 0 and a warning exactly when
\* failed > 0.
LiveHookProtocol ==
  /\ live.outcome \in {"skipped-too-short", "skipped-no-key"} =>
       /\ live.notifications = <<>>
       /\ live.modelCalls = 0
       /\ live.posts = <<>>
       /\ \/ live.turnCount < AUTOMEM_MIN_TURNS(live.env)
          \/ ~live.env.GEMINI_API_KEY
  /\ (live.pc \in {"extract", "store", "notify"} \/ live.modelCalls > 0) =>
       /\ live.turnCount >= AUTOMEM_MIN_TURNS(live.env)
       /\ live.env.GEMINI_API_KEY
       /\ live.notifications # <<>>
       /\ live.notifications[1] = [text |-> "extracting", level |-> "info"]
  /\ live.pc = "extract" => live.modelCalls = 0
  /\ live.modelCalls <= 1
  /\ live.posts # <<>> => live.modelCalls = 1 /\ live.memories # <<>>
  /\ live.outcome = "skipped-empty-extraction" =>
       live.posts = <<>> /\ Len(live.notifications) = 1
  /\ live.outcome = "processed" =>
       /\ Cardinality(Emitted("success")) = (IF live.stored > 0 THEN 1 ELSE 0)
       /\ Cardinality(Emitted("warning")) = (IF live.failed > 0 THEN 1 ELSE 0)
       /\ Cardinality(Emitted("info")) = 1

\* a session ended with one memory stored and one failed: the handler has
\* notified three times, extracting, success and warning
LiveHookWitness ==
  /\ live.pc = "ended"
  /\ live.outcome = "processed"
  /\ live.stored = 1
  /\ live.failed = 1
  /\ Len(live.notifications) = 3
  /\ live.notifications[2].level = "success"
  /\ live.notifications[3].level = "warning"

\* C38: the conversation inside the extraction prompt is the first
\* min(length, cap) characters of the formatted conversation, with cap
\* 15000 on the batch path and 30000 on the live path; the formatted
\* conversation itself is as long as its entries make it.
PromptHoldsCutConversation ==
  fn.op = "prompt" =>
    /\ fn.batch = SubSeq(fn.batchText, 1, Min(Len(fn.batchText), 15000))
    /\ fn.live = SubSeq(fn.liveText, 1, Min(Len(fn.liveText), 30000))
    /\ Len(fn.batchText) = (fn.n - 1) * (6 + EntryCap + 2) + 6 + fn.x
    /\ Len(fn.liveText) = Len(fn.batchText)

\* fifteen messages gave a formatted text of 30001 characters, of which
\* the batch prompt holds 15000 and the live prompt 30000
PromptCutWitness ==
  /\ fn.op = "prompt"
  /\ Len(fn.liveText) = 30001
  /\ Len(fn.batch) = 15000
  /\ Len(fn.live) = 30000

====
